---- MODULE Spec2Model ----
(***************************************************************************)
(* A model of the python-wayland client runtime: wayland/protocol.py       *)
(* (proxies, request marshalling, event unmarshalling and dispatch) and    *)
(* wayland/client.py (_Display: object ids, registry, send queue,          *)
(* receive/reassembly, event queues, dispatch and roundtrip).              *)
(*                                                                         *)
(* Byte strings are modelled as sequences of 32-bit little-endian words    *)
(* (every frame the protocol defines is a whole number of words); byte     *)
(* counts of the source (8, the size field) are kept in bytes.             *)
(***************************************************************************)
EXTENDS Integers, Sequences, FiniteSets, TLC

VARIABLES
    proxies,            \* every ClientProxy constructed so far, by handle 1..Len
    objects,            \* _Display.objects: oid -> proxy handle
    oids,               \* _Display._oids: the next value the iterator yields
    reusable_oids,      \* _Display._reusable_oids
    queues,             \* event queues; queues[DefaultQueue] is _default_queue
    send_queue,         \* _Display._send_queue
    read_partial_event, \* _Display._read_partial_event
    incoming_fds,       \* _Display._incoming_fds
    c2s,                \* socket, client to server: frames written, not yet read
    s2c,                \* socket, server to client: words (with fds) not yet received
    call,               \* Request.invoke in progress: marshalled, not yet queued
    dpq,                \* dispatch_pending in progress: the queue it loops on
    dsp,                \* dispatch in progress: "idle", "wait" or "pending"
    rt,                 \* roundtrip in progress: callback l and the ready flag
    result,             \* how the last API call of the owner ended
    invoked,            \* history: <<proxy, event>> pairs whose handler was called
    issued,             \* history: number of frames handed to _queue_request
    sent,               \* history: issue numbers of the frames written to the socket
    emitted,            \* number of unsolicited frames the server has written
    calls,              \* number of API calls the owner has made
    interfaces,         \* Protocol.interfaces of the protocol the display uses
    made,               \* number of Interface objects constructed so far
    descriptors,        \* descriptors os.dup has made: how many, which are open
    codec               \* the last encoding made outside a connection, decoded

vars == <<proxies, objects, oids, reusable_oids, queues, send_queue,
          read_partial_event, incoming_fds, c2s, s2c, call, dpq, dsp, rt,
          result, invoked, issued, sent, emitted, calls, interfaces, made,
          descriptors, codec>>

(***************************************************************************)
(* Bounds of the model.                                                    *)
(***************************************************************************)
\* 0xff000000 of _Display.__init__ / _delete_id, scaled down
OidCeiling == 4
\* proxies ever constructed on the connection, the display included
MaxProxies == 4
\* unsolicited frames the server writes
MaxEvents == 1
\* event queues of the owner besides the default queue
NumUserQueues == 1
\* words the server-to-client socket buffer holds
MaxInFlight == 6
\* API calls the owner makes
MaxCalls == 4
\* interface elements in a protocol file loaded on top of the display's
MaxChildInterfaces == 3
\* frames the compositor writes unasked on a connection with a bound
\* wl_data_device
MaxScenarioEvents == 2
\* code points in a string the codec is applied to
MaxStringLen == 4
\* the ints and uints the codec is applied to lie within MaxInt of zero, or at
\* the ends of their ranges
MaxInt == 300
\* likewise the floats, in units of 1/256
MaxFixed == 400
\* likewise the ints passed for a fixed argument
MaxFixedInt == 3

(***************************************************************************)
(* Values.                                                                 *)
(***************************************************************************)
\* Python's None as the value of ClientProxy.oid
None == -1
\* Python's None where a proxy is expected (rval, objects.get(v, None))
NoProxy == 0
\* index of _Display._default_queue among the queues
DefaultQueue == 0
\* no dispatch_pending in progress
NoQueue == -1

QueueIds == DefaultQueue .. NumUserQueues

Last(s) == s[Len(s)]
Front(s) == SubSeq(s, 1, Len(s) - 1)

\* "not proxy.oid" / "if v:" on an oid
Falsy(oid) == oid = None \/ oid = 0

(***************************************************************************)
(* The protocol loaded into the connection: a sample in the shape of the   *)
(* core wayland.xml, cut down to five interfaces, and a sixth, wl_seat,    *)
(* whose requests and events take the other kinds of argument.  Opcodes    *)
(* and event numbers follow declaration order (Interface.__init__).        *)
(***************************************************************************)
MkArg(name, type, interface, allow_null) ==
    [name |-> name, type |-> type, interface |-> interface, allow_null |-> allow_null]

MkRequest(name, opcode, since, is_destructor, args) ==
    [name |-> name, opcode |-> opcode, since |-> since,
     is_destructor |-> is_destructor, args |-> args]

MkEvent(name, number, args) == [name |-> name, number |-> number, args |-> args]

Interfaces ==
    {"wl_display", "wl_callback", "wl_registry", "wl_data_device", "wl_data_offer",
     "wl_seat"}

\* Interface.requests, in declaration order
Requests(i) ==
    CASE i = "wl_display" ->
           << MkRequest("sync", 0, 1, FALSE,
                        << MkArg("callback", "new_id", "wl_callback", FALSE) >>),
              MkRequest("get_registry", 1, 1, FALSE,
                        << MkArg("registry", "new_id", "wl_registry", FALSE) >>) >>
      [] i = "wl_registry" ->
           << MkRequest("bind", 0, 1, FALSE,
                        << MkArg("name", "uint", "", FALSE),
                           MkArg("id", "new_id", "", FALSE) >>) >>
      [] i = "wl_data_device" ->
           << MkRequest("release", 0, 2, TRUE, << >>) >>
      [] i = "wl_data_offer" ->
           << MkRequest("destroy", 0, 1, TRUE, << >>) >>
      [] i = "wl_seat" ->
           << MkRequest("get_callback", 0, 2, FALSE,
                        << MkArg("id", "new_id", "wl_callback", FALSE) >>),
              MkRequest("receive", 1, 1, FALSE,
                        << MkArg("fd", "fd", "", FALSE) >>),
              MkRequest("set_region", 2, 1, FALSE,
                        << MkArg("region", "object", "", TRUE) >>),
              MkRequest("place_above", 3, 1, FALSE,
                        << MkArg("sibling", "object", "", FALSE) >>),
              MkRequest("release", 4, 2, TRUE, << >>),
              MkRequest("get_shell_surface", 5, 1, FALSE,
                        << MkArg("id", "new_id", "wl_callback", FALSE),
                           MkArg("surface", "object", "", FALSE) >>),
              MkRequest("offer", 6, 1, FALSE,
                        << MkArg("fd", "fd", "", FALSE),
                           MkArg("source", "object", "", FALSE) >>) >>
      [] OTHER -> << >>

\* Interface.events_by_number
Events(i) ==
    CASE i = "wl_display" ->
           << MkEvent("error", 0, << MkArg("object_id", "object", "", FALSE),
                                     MkArg("code", "uint", "", FALSE),
                                     MkArg("message", "string", "", FALSE) >>),
              MkEvent("delete_id", 1, << MkArg("id", "uint", "", FALSE) >>) >>
      [] i = "wl_callback" ->
           << MkEvent("done", 0, << MkArg("callback_data", "uint", "", FALSE) >>) >>
      [] i = "wl_registry" ->
           << MkEvent("global", 0, << MkArg("name", "uint", "", FALSE),
                                      MkArg("interface", "string", "", FALSE),
                                      MkArg("version", "uint", "", FALSE) >>),
              MkEvent("global_remove", 1, << MkArg("name", "uint", "", FALSE) >>) >>
      [] i = "wl_data_device" ->
           << MkEvent("data_offer", 0,
                      << MkArg("id", "new_id", "wl_data_offer", FALSE) >>),
              MkEvent("leave", 1, << >>) >>
      [] i = "wl_data_offer" ->
           << MkEvent("offer", 0, << MkArg("mime_type", "string", "", FALSE) >>) >>
      [] i = "wl_seat" ->
           << MkEvent("keymap", 0, << MkArg("format", "uint", "", FALSE),
                                      MkArg("fd", "fd", "", FALSE) >>) >>
      [] OTHER -> << >>

\* interface.name.encode('utf-8')
Utf8(name) ==
    CASE name = "wl_data_device" ->
           <<119, 108, 95, 100, 97, 116, 97, 95, 100, 101, 118, 105, 99, 101>>
      [] name = "wl_data_offer" ->
           <<119, 108, 95, 100, 97, 116, 97, 95, 111, 102, 102, 101, 114>>
      [] name = "wl_registry" ->
           <<119, 108, 95, 114, 101, 103, 105, 115, 116, 114, 121>>
      [] name = "wl_callback" ->
           <<119, 108, 95, 99, 97, 108, 108, 98, 97, 99, 107>>
      [] OTHER -> <<119, 108, 95, 100, 105, 115, 112, 108, 97, 121>>

(***************************************************************************)
(* Bytes and words.                                                        *)
(***************************************************************************)
Zeros(n) == [k \in 1 .. n |-> 0]

\* struct.pack('I', ...) laid out over a byte string whose length is a
\* multiple of 4: four bytes, little-endian, per word
RECURSIVE WordsOf(_)
WordsOf(bytes) ==
    IF Len(bytes) < 4 THEN << >>
    ELSE << bytes[1] + 256 * bytes[2] + 65536 * bytes[3] + 16777216 * bytes[4] >>
         \o WordsOf(SubSeq(bytes, 5, Len(bytes)))

(***************************************************************************)
(* Proxies and the registry.                                               *)
(***************************************************************************)
\* the names of an interface's events
EventNames(i) == { Events(i)[k].name : k \in 1 .. Len(Events(i)) }

\* ClientProxy.__init__; dispatcher[name] = "" stands for no entry under name
ClientProxy(interface, oid, queue, version) ==
    [interface |-> interface, oid |-> oid, queue |-> queue, version |-> version,
     dispatcher |-> [n \in EventNames(interface) |-> ""], destroyed |-> FALSE]

\* d[key] = value on a Python dict
DictSet(d, key, value) ==
    [k \in DOMAIN d \cup {key} |-> IF k = key THEN value ELSE d[k]]

\* del d[key]
DictDel(d, key) == [k \in DOMAIN d \ {key} |-> d[k]]

\* d.get(key, None) on the registry
Lookup(d, key) == IF key \in DOMAIN d THEN d[key] ELSE NoProxy

\* _get_new_oid that takes from the iterator while it lasts, then from the pile
get_new_oid_counter_first(it, pile) ==
    IF it < OidCeiling
    THEN [oid |-> it, oids |-> it + 1, reusable_oids |-> pile, exc |-> ""]
    ELSE IF pile # << >>
         THEN [oid |-> Last(pile), oids |-> it, reusable_oids |-> Front(pile),
               exc |-> ""]
         ELSE [oid |-> None, oids |-> it, reusable_oids |-> pile,
               exc |-> "StopIteration"]

\* _Display._get_new_oid on (the iterator, the reuse pile)
get_new_oid(it, pile) ==
    IF pile # << >>
    THEN [oid |-> Last(pile), oids |-> it, reusable_oids |-> Front(pile), exc |-> ""]
    ELSE IF it < OidCeiling
         THEN [oid |-> it, oids |-> it + 1, reusable_oids |-> pile, exc |-> ""]
         ELSE [oid |-> None, oids |-> it, reusable_oids |-> pile,
               exc |-> "StopIteration"]

\* _delete_id without "self.objects[id_].oid = None"
delete_id_keeps_oid(objs, prx, pile, id_) ==
    IF id_ \notin DOMAIN objs
    THEN [objects |-> objs, proxies |-> prx, reusable_oids |-> pile,
          exc |-> "KeyError"]
    ELSE [objects |-> DictDel(objs, id_),
          proxies |-> prx,
          reusable_oids |-> IF id_ < OidCeiling THEN Append(pile, id_) ELSE pile,
          exc |-> ""]

\* _Display._delete_id on (objects, proxies, the reuse pile)
delete_id(objs, prx, pile, id_) ==
    IF id_ \notin DOMAIN objs
    THEN [objects |-> objs, proxies |-> prx, reusable_oids |-> pile,
          exc |-> "KeyError"]
    ELSE [objects |-> DictDel(objs, id_),
          proxies |-> [prx EXCEPT ![objs[id_]].oid = None],
          reusable_oids |-> IF id_ < OidCeiling THEN Append(pile, id_) ELSE pile,
          exc |-> ""]

(***************************************************************************)
(* Marshalling a request.  The marshalling state m carries what the        *)
(* argument marshallers read and change: the caller's remaining args, the  *)
(* bytes and fds so far, rval, the id allocator, the registry and the      *)
(* proxies; exc is the exception that ended it ("" for none).              *)
(***************************************************************************)
\* Arg_uint.marshal
Arg_uint_marshal(a, m) ==
    [m EXCEPT !.args = Tail(@), !.al = @ \o << Head(m.args) >>]

\* Arg_new_id.marshal_for_request without "proxy.display.objects[nid] = new_proxy"
Arg_new_id_marshal_unbound(a, m, p) ==
    LET g == get_new_oid(m.oids, m.reusable_oids)
        dyn == a.interface = ""
        interface == IF dyn THEN m.args[1] ELSE a.interface
        version == IF dyn THEN m.args[2] ELSE m.proxies[p].version
        iname == Utf8(interface)
        b == IF dyn
             THEN << Len(iname) + 1 >>
                  \o WordsOf(iname \o Zeros(4 - (Len(iname) % 4)))
                  \o << version, g.oid >>
             ELSE << g.oid >>
        h == Len(m.proxies) + 1
    IN  IF g.exc # "" THEN [m EXCEPT !.exc = g.exc]
        ELSE [m EXCEPT !.args = IF dyn THEN Tail(Tail(@)) ELSE @,
                       !.al = @ \o b,
                       !.rval = IF @ # NoProxy THEN @ ELSE h,
                       !.oids = g.oids,
                       !.reusable_oids = g.reusable_oids,
                       !.proxies = Append(@, ClientProxy(interface, g.oid,
                                                         DefaultQueue, version))]

\* Arg_new_id.marshal_for_request
Arg_new_id_marshal_for_request(a, m, p) ==
    LET g == get_new_oid(m.oids, m.reusable_oids)
        dyn == a.interface = ""
        interface == IF dyn THEN m.args[1] ELSE a.interface
        version == IF dyn THEN m.args[2] ELSE m.proxies[p].version
        iname == Utf8(interface)
        b == IF dyn
             THEN << Len(iname) + 1 >>
                  \o WordsOf(iname \o Zeros(4 - (Len(iname) % 4)))
                  \o << version, g.oid >>
             ELSE << g.oid >>
        h == Len(m.proxies) + 1
    IN  IF g.exc # "" THEN [m EXCEPT !.exc = g.exc]
        ELSE [m EXCEPT !.args = IF dyn THEN Tail(Tail(@)) ELSE @,
                       !.al = @ \o b,
                       !.rval = IF @ # NoProxy THEN @ ELSE h,
                       !.oids = g.oids,
                       !.reusable_oids = g.reusable_oids,
                       !.proxies = Append(@, ClientProxy(interface, g.oid,
                                                         DefaultQueue, version)),
                       !.objects = DictSet(@, g.oid, h)]

\* an Arg_object.marshal that encodes None as id 0 whether or not the
\* argument allows null
Arg_object_marshal_null_as_zero(a, m) ==
    LET v == Head(m.args)
    IN  IF v # NoProxy
        THEN IF m.proxies[v].oid = None THEN [m EXCEPT !.exc = "struct.error"]
             ELSE [m EXCEPT !.args = Tail(@), !.al = @ \o << m.proxies[v].oid >>]
        ELSE [m EXCEPT !.args = Tail(@), !.al = @ \o << 0 >>]

\* Arg_object.marshal: the value is a proxy or None; struct.pack fails on
\* the oid None of a deleted proxy
Arg_object_marshal(a, m) ==
    LET v == Head(m.args)
    IN  IF v # NoProxy
        THEN IF m.proxies[v].oid = None THEN [m EXCEPT !.exc = "struct.error"]
             ELSE [m EXCEPT !.args = Tail(@), !.al = @ \o << m.proxies[v].oid >>]
        ELSE IF a.allow_null
        THEN [m EXCEPT !.args = Tail(@), !.al = @ \o << 0 >>]
        ELSE [m EXCEPT !.args = Tail(@), !.exc = "NullArgumentException"]

\* the first descriptor os.dup returns; each later one is the next number
FirstDup == 100

\* os.dup: a descriptor that was never in use before
os_dup(f) ==
    [dups |-> f.dups + 1, open |-> f.open \cup {FirstDup + f.dups}]

\* Arg_fd.marshal: the duplicate joins the frame's fds, no bytes
Arg_fd_marshal(a, m) ==
    [m EXCEPT !.args = Tail(@), !.fl = Append(@, FirstDup + m.descriptors.dups),
              !.descriptors = os_dup(@)]

\* Arg.marshal_for_request, by the argument's class
marshal_for_request(a, m, p) ==
    CASE a.type = "new_id" -> Arg_new_id_marshal_for_request(a, m, p)
      [] a.type = "uint" -> Arg_uint_marshal(a, m)
      [] a.type = "object" -> Arg_object_marshal(a, m)
      [] a.type = "fd" -> Arg_fd_marshal(a, m)
      [] OTHER -> [m EXCEPT !.exc = "RuntimeError"]

\* the for loop of ClientProxy._marshal_request
RECURSIVE MarshalArgs(_, _, _)
MarshalArgs(rargs, m, p) ==
    IF rargs = << >> \/ m.exc # "" THEN m
    ELSE MarshalArgs(Tail(rargs), marshal_for_request(Head(rargs), m, p), p)

\* struct.pack('II', self.oid, ((len(al) + 8) << 16) | request.opcode) + al
Frame(oid, opcode, al) == << oid, (4 * Len(al) + 8) * 65536 + opcode >> \o al

\* Request.invoke with "if not proxy.oid" after the other two checks
invoke_check_oid_last(px, r) ==
    IF px.destroyed THEN "ignore"
    ELSE IF px.version < r.since THEN "ignore"
    ELSE IF Falsy(px.oid) THEN "DeletedProxyException"
    ELSE "marshal"

\* Request.invoke without "if proxy.destroyed: return"
invoke_check_skips_destroyed(px, r) ==
    IF Falsy(px.oid) THEN "DeletedProxyException"
    ELSE IF px.version < r.since THEN "ignore"
    ELSE "marshal"

\* Request.invoke without "if proxy.version < self.since: return"
invoke_check_skips_version(px, r) ==
    IF Falsy(px.oid) THEN "DeletedProxyException"
    ELSE IF px.destroyed THEN "ignore"
    ELSE "marshal"

\* the checks that open Request.invoke
invoke_check(px, r) ==
    IF Falsy(px.oid) THEN "DeletedProxyException"
    ELSE IF px.destroyed THEN "ignore"
    ELSE IF px.version < r.since THEN "ignore"
    ELSE "marshal"

(***************************************************************************)
(* Unmarshalling an event.  The unmarshalling state u carries argdata (the *)
(* words not yet read), the values decoded so far, and the proxies, the    *)
(* registry and the fd queue the argument classes read and change.         *)
(***************************************************************************)
\* the bytes of a word string, little-endian
RECURSIVE BytesOf(_)
BytesOf(words) ==
    IF words = << >> THEN << >>
    ELSE LET w == Head(words)
         IN  << w % 256, (w \div 256) % 256, (w \div 65536) % 256,
                (w \div 16777216) % 256 >> \o BytesOf(Tail(words))

\* s[:n] on a sequence
Take(s, n) == SubSeq(s, 1, IF n < Len(s) THEN n ELSE Len(s))

\* s[n:] on a sequence
Drop(s, n) == SubSeq(s, n + 1, Len(s))

\* Arg_uint.unmarshal: struct.unpack fails on a short read
Arg_uint_unmarshal(a, u) ==
    IF u.argdata = << >> THEN [u EXCEPT !.exc = "struct.error"]
    ELSE [u EXCEPT !.argdata = Tail(@), !.args = Append(@, Head(u.argdata))]

\* Arg_object.unmarshal_from_event
Arg_object_unmarshal_from_event(a, u) ==
    IF u.argdata = << >> THEN [u EXCEPT !.exc = "struct.error"]
    ELSE [u EXCEPT !.argdata = Tail(@),
                   !.args = Append(@, Lookup(u.objects, Head(u.argdata)))]

\* an unmarshal_from_event that puts the new proxy on the queue of the proxy
\* the event is for
Arg_new_id_unmarshal_on_its_queue(a, u, p) ==
    IF u.argdata = << >> THEN [u EXCEPT !.exc = "struct.error"]
    ELSE LET nid == Head(u.argdata)
             h == Len(u.proxies) + 1
         IN  [u EXCEPT !.argdata = Tail(@),
                       !.args = Append(@, h),
                       !.proxies = Append(@, ClientProxy(a.interface, nid,
                                              u.proxies[p].queue,
                                              u.proxies[p].version)),
                       !.objects = DictSet(@, nid, h)]

\* Arg_new_id.unmarshal_from_event
Arg_new_id_unmarshal_from_event(a, u, p) ==
    IF u.argdata = << >> THEN [u EXCEPT !.exc = "struct.error"]
    ELSE LET nid == Head(u.argdata)
             h == Len(u.proxies) + 1
         IN  [u EXCEPT !.argdata = Tail(@),
                       !.args = Append(@, h),
                       !.proxies = Append(@, ClientProxy(a.interface, nid,
                                              DefaultQueue, u.proxies[p].version)),
                       !.objects = DictSet(@, nid, h)]

\* Arg_string.unmarshal: the value is the string's bytes
Arg_string_unmarshal(a, u) ==
    IF u.argdata = << >> THEN [u EXCEPT !.exc = "struct.error"]
    ELSE IF ~(Head(u.argdata) > 0) THEN [u EXCEPT !.exc = "AssertionError"]
    ELSE LET l == Head(u.argdata) - 1
             body == Tail(u.argdata)
             nwords == (l + (4 - (l % 4))) \div 4
         IN  [u EXCEPT !.argdata = Drop(body, nwords),
                       !.args = Append(@, Take(BytesOf(Take(body, nwords)), l))]

\* an Arg_fd.unmarshal that takes the descriptor received last
Arg_fd_unmarshal_last(a, u) ==
    IF u.incoming_fds = << >> THEN [u EXCEPT !.exc = "IndexError"]
    ELSE [u EXCEPT !.incoming_fds = Front(@),
                   !.args = Append(@, Last(u.incoming_fds))]

\* Arg_fd.unmarshal: fd_source.pop(0)
Arg_fd_unmarshal(a, u) ==
    IF u.incoming_fds = << >> THEN [u EXCEPT !.exc = "IndexError"]
    ELSE [u EXCEPT !.incoming_fds = Tail(@),
                   !.args = Append(@, Head(u.incoming_fds))]

\* Arg.unmarshal_from_event, by the argument's class
unmarshal_from_event(a, u, p) ==
    CASE a.type = "uint" -> Arg_uint_unmarshal(a, u)
      [] a.type = "fd" -> Arg_fd_unmarshal(a, u)
      [] a.type = "object" -> Arg_object_unmarshal_from_event(a, u)
      [] a.type = "new_id" -> Arg_new_id_unmarshal_from_event(a, u, p)
      [] a.type = "string" -> Arg_string_unmarshal(a, u)
      [] OTHER -> [u EXCEPT !.exc = "RuntimeError"]

RECURSIVE UnmarshalArgs(_, _, _)
UnmarshalArgs(eargs, u, p) ==
    IF eargs = << >> \/ u.exc # "" THEN u
    ELSE UnmarshalArgs(Tail(eargs), unmarshal_from_event(Head(eargs), u, p), p)

\* ClientProxy._unmarshal_event; the entry it returns is u.entry
unmarshal_event(p, opcode, u) ==
    LET evs == Events(u.proxies[p].interface)
    IN  IF opcode + 1 > Len(evs) THEN [u EXCEPT !.exc = "IndexError"]
        ELSE LET v == UnmarshalArgs(evs[opcode + 1].args, u, p)
             IN  [v EXCEPT !.entry = [proxy |-> p, event |-> evs[opcode + 1].name,
                                      args |-> v.args, exc |-> ""]]

(***************************************************************************)
(* _Display._decode.  The decoding state m carries data (the local of the  *)
(* method), the proxies, the registry, the queues and the fd queue; exc is *)
(* the exception that ended it.  A frame whose size field is below 4 on a  *)
(* bound object whose event decodes makes the loop run without consuming   *)
(* anything: exc is then "NonTermination".                                 *)
(***************************************************************************)
\* the else branch of _decode: obj is None there
decode_unknown_object(m, oid) == [m EXCEPT !.exc = "AttributeError"]

\* the loop condition of _decode
decode_more(data) == 4 * Len(data) > 8

\* a turn of the loop that puts the entry at the head of the proxy's queue
decode_frame_prepends(m) ==
    LET oid == m.data[1]
        size == m.data[2] \div 65536
        op == m.data[2] % 65536
        argdata == SubSeq(m.data, 3, size \div 4)
        rest == Drop(m.data, size \div 4)
        obj == Lookup(m.objects, oid)
    IN  IF obj = NoProxy THEN decode_unknown_object([m EXCEPT !.data = rest], oid)
        ELSE LET u == unmarshal_event(obj, op,
                         [argdata |-> argdata, args |-> << >>, proxies |-> m.proxies,
                          objects |-> m.objects, incoming_fds |-> m.incoming_fds,
                          exc |-> "", entry |-> << >>])
             IN  IF u.exc # ""
                 THEN [m EXCEPT !.data = rest, !.proxies = u.proxies,
                                !.objects = u.objects,
                                !.incoming_fds = u.incoming_fds, !.exc = u.exc]
                 ELSE IF size \div 4 = 0
                 THEN [m EXCEPT !.exc = "NonTermination"]
                 ELSE [m EXCEPT !.data = rest, !.proxies = u.proxies,
                                !.objects = u.objects,
                                !.incoming_fds = u.incoming_fds,
                                !.queues[u.proxies[obj].queue] = << u.entry >> \o @]

\* one turn of the while loop of _decode, past the size checks
decode_frame(m) ==
    LET oid == m.data[1]
        size == m.data[2] \div 65536
        op == m.data[2] % 65536
        argdata == SubSeq(m.data, 3, size \div 4)
        rest == Drop(m.data, size \div 4)
        obj == Lookup(m.objects, oid)
    IN  IF obj = NoProxy THEN decode_unknown_object([m EXCEPT !.data = rest], oid)
        ELSE LET u == unmarshal_event(obj, op,
                         [argdata |-> argdata, args |-> << >>, proxies |-> m.proxies,
                          objects |-> m.objects, incoming_fds |-> m.incoming_fds,
                          exc |-> "", entry |-> << >>])
             IN  IF u.exc # ""
                 THEN [m EXCEPT !.data = rest, !.proxies = u.proxies,
                                !.objects = u.objects,
                                !.incoming_fds = u.incoming_fds, !.exc = u.exc]
                 ELSE IF size \div 4 = 0
                 THEN [m EXCEPT !.exc = "NonTermination"]
                 ELSE [m EXCEPT !.data = rest, !.proxies = u.proxies,
                                !.objects = u.objects,
                                !.incoming_fds = u.incoming_fds,
                                !.queues[u.proxies[obj].queue] = Append(@, u.entry)]

RECURSIVE decode(_)
decode(m) ==
    IF m.exc # "" \/ ~decode_more(m.data) THEN m
    ELSE IF 4 * Len(m.data) < m.data[2] \div 65536 THEN m
    ELSE decode(decode_frame(m))

(***************************************************************************)
(* The owner's thread of control.  One thread uses the connection: while a *)
(* call is in progress only its next step can be taken.                    *)
(***************************************************************************)
\* the wl_display proxy: the first proxy constructed
Display == 1

NoCall == [proxy |-> NoProxy, request |-> MkRequest("", 0, 0, FALSE, << >>),
           al |-> << >>, fl |-> << >>, rval |-> NoProxy]

NoRoundtrip == [active |-> FALSE, l |-> NoProxy, ready |-> FALSE, mark |-> 0]

\* the Python values an exception of the display carries: None, an int, a
\* proxy, a tuple of proxies, and a str, which is either a text (its bytes) or
\* the repr of a tuple of proxies
PyNone == [type |-> "None", n |-> 0, text |-> << >>, items |-> << >>]

PyInt(n) == [type |-> "int", n |-> n, text |-> << >>, items |-> << >>]

PyProxy(h) ==
    IF h = NoProxy THEN PyNone
    ELSE [type |-> "proxy", n |-> h, text |-> << >>, items |-> << >>]

PyTuple(items) == [type |-> "tuple", n |-> 0, text |-> << >>, items |-> items]

PyStr(text) == [type |-> "str", n |-> 0, text |-> text, items |-> << >>]

\* the decimal digits of a natural number, as bytes
RECURSIVE Digits(_)
Digits(n) == IF n < 10 THEN <<48 + n>> ELSE Digits(n \div 10) \o <<48 + (n % 10)>>

\* str(v)
str(v) ==
    CASE v.type = "str" -> v
      [] v.type = "int" -> PyStr(Digits(v.n))
      [] v.type = "None" -> PyStr(<<78, 111, 110, 101>>)
      [] OTHER -> [type |-> "str", n |-> 0, text |-> << >>, items |-> <<v>>]

\* DisplayError(obj, code, codestr, message)
DisplayError(obj, code, codestr, message) ==
    [obj |-> obj, code |-> code, codestr |-> codestr, message |-> message]

\* the exception carries no fields of a display error
NoError == DisplayError(PyNone, PyNone, PyNone, PyNone)

\* _Display._error_event(*args): the exception it raises
error_event(args) ==
    LET objs == SubSeq(args, 1, Len(args) - 2)
        code == args[Len(args) - 1]
        message == args[Len(args)]
    IN  DisplayError(str(PyTuple(objs)), str(code), PyStr(<< >>), str(message))

Returned(op, val) ==
    [op |-> op, kind |-> "return", exc |-> "", val |-> val, err |-> NoError]

Raised(op, exc) ==
    [op |-> op, kind |-> IF exc = "NonTermination" THEN "hang" ELSE "raise",
     exc |-> exc, val |-> 0, err |-> NoError]

\* no call of the owner is in progress
Idle ==
    /\ call = NoCall
    /\ dpq = NoQueue
    /\ dsp = "idle"
    /\ ~rt.active
    /\ result.kind # "hang"

\* the owner makes one more API call
OwnerCalls ==
    /\ Idle
    /\ calls < MaxCalls
    /\ calls' = calls + 1
    /\ UNCHANGED <<interfaces, made, codec>>

\* the API call at the bottom of the owner's stack
TopOp ==
    IF rt.active THEN "roundtrip"
    ELSE IF dsp # "idle" THEN "dispatch"
    ELSE IF dpq # NoQueue THEN "dispatch_pending"
    ELSE "invoke"

\* an exception propagates to the owner: every call in progress is left
Raise(op, exc) ==
    /\ call' = NoCall
    /\ dpq' = NoQueue
    /\ dsp' = "idle"
    /\ rt' = NoRoundtrip
    /\ result' = Raised(op, exc)

\* an exception a handler raised propagates to the owner with its fields
RaiseFrom(op, d) ==
    /\ call' = NoCall
    /\ dpq' = NoQueue
    /\ dsp' = "idle"
    /\ rt' = NoRoundtrip
    /\ result' = [Raised(op, d.exc) EXCEPT !.err = d.err]

(***************************************************************************)
(* Request.invoke, up to the end of the for loop of _marshal_request.      *)
(***************************************************************************)
invoke_marshal(p, r, args) ==
    LET c == invoke_check(proxies[p], r)
        m0 == [args |-> args, al |-> << >>, fl |-> << >>, rval |-> NoProxy,
               oids |-> oids, reusable_oids |-> reusable_oids,
               objects |-> objects, proxies |-> proxies,
               descriptors |-> descriptors,
               exc |-> ""]
        m == IF c = "marshal" THEN MarshalArgs(r.args, m0, p) ELSE m0
    IN  [kind |-> IF c = "marshal" THEN (IF m.exc # "" THEN "raise" ELSE "marshalled")
                  ELSE IF c = "ignore" THEN "ignore" ELSE "raise",
         exc |-> IF c = "marshal" THEN m.exc ELSE IF c = "ignore" THEN "" ELSE c,
         m |-> m,
         call |-> [proxy |-> p, request |-> r, al |-> m.al, fl |-> m.fl,
                   rval |-> m.rval]]

\* the registry and allocator as invoke_marshal leaves them
InvokeState(o) ==
    /\ proxies' = o.m.proxies
    /\ objects' = o.m.objects
    /\ oids' = o.m.oids
    /\ reusable_oids' = o.m.reusable_oids
    /\ descriptors' = o.m.descriptors
    /\ Len(proxies') <= MaxProxies

\* the argument lists the owner passes to a request
ArgChoices(r) ==
    CASE r.name = "bind" -> { << 1, "wl_data_device", v >> : v \in {1, 2} }
      [] r.name = "receive" -> { << 5 >> }
      [] r.name \in {"set_region", "place_above"} ->
           { << v >> : v \in {NoProxy, Display} }
      [] r.name = "get_shell_surface" -> { << v >> : v \in {NoProxy, Display} }
      [] r.name = "offer" -> { << 5, v >> : v \in {NoProxy, Display} }
      [] OTHER -> { << >> }

\* proxy.request(*args), called by the owner
ApiInvoke(p, r, args) ==
    /\ OwnerCalls
    /\ LET o == invoke_marshal(p, r, args)
       IN  /\ InvokeState(o)
           /\ CASE o.kind = "raise" -> Raise("invoke", o.exc)
                [] o.kind = "ignore" ->
                     /\ result' = Returned("invoke", NoProxy)
                     /\ UNCHANGED <<call, dpq, dsp, rt>>
                [] OTHER ->
                     /\ call' = o.call
                     /\ UNCHANGED <<dpq, dsp, rt, result>>
    /\ UNCHANGED <<queues, send_queue, read_partial_event, incoming_fds, c2s, s2c,
                   invoked, issued, sent, emitted>>

\* _Display._queue_request; n is the history's issue number of the frame
queue_request(q, b, fds, n) == Append(q, [b |-> b, fds |-> fds, n |-> n])

\* the rest of _marshal_request and of Request.invoke: pack the header, queue
\* the frame, mark a destructor's proxy destroyed, return rval
InvokeQueue ==
    /\ UNCHANGED <<calls, interfaces, made, descriptors, codec>>
    /\ call # NoCall
    /\ LET p == call.proxy
           r == call.request
           marked == IF r.is_destructor
                     THEN [proxies EXCEPT ![p].destroyed = TRUE] ELSE proxies
       IN  /\ send_queue' = queue_request(send_queue,
                                Frame(proxies[p].oid, r.opcode, call.al),
                                call.fl, issued + 1)
           /\ issued' = issued + 1
           /\ call' = NoCall
           /\ IF dpq # NoQueue
              THEN \* called from a handler, which drops the value
                   /\ proxies' = marked
                   /\ UNCHANGED <<rt, result>>
              ELSE IF rt.active
              THEN \* l = self.sync(); l.dispatcher['done'] = set_ready
                   /\ proxies' = [marked EXCEPT
                                      ![call.rval].dispatcher["done"] = "set_ready"]
                   /\ rt' = [rt EXCEPT !.l = call.rval, !.mark = issued + 1]
                   /\ UNCHANGED result
              ELSE /\ proxies' = marked
                   /\ result' = Returned("invoke", call.rval)
                   /\ UNCHANGED rt
    /\ UNCHANGED <<objects, oids, reusable_oids, queues, read_partial_event,
                   incoming_fds, c2s, s2c, dpq, dsp, invoked, sent, emitted>>

(***************************************************************************)
(* _Display.flush.                                                         *)
(***************************************************************************)
\* "socket.errno == 11" in the except clause of flush: socket.errno is the
\* errno module, which never equals 11
WouldBlockCaught == FALSE

\* flush when sendmsg succeeds on the first k frames and reports would-block
\* on the next one (k = Len(q): every sendmsg succeeds)
flush(q, k) ==
    IF k = Len(q)
    THEN [send_queue |-> << >>, written |-> q, exc |-> "", ret |-> 1]
    ELSE IF WouldBlockCaught
    THEN [send_queue |-> Drop(q, k), written |-> Take(q, k), exc |-> "", ret |-> 0]
    ELSE [send_queue |-> Drop(q, k + 1), written |-> Take(q, k),
          exc |-> "BlockingIOError", ret |-> 0]

\* the descriptors that travel with the frames
FdSet(frames) ==
    UNION { { frames[j].fds[i] : i \in 1 .. Len(frames[j].fds) } :
            j \in 1 .. Len(frames) }

\* "for fd in fds: os.close(fd)" for each frame written
os_close(f, written) == [f EXCEPT !.open = @ \ FdSet(written)]

FlushState(f) ==
    /\ send_queue' = f.send_queue
    /\ c2s' = c2s \o f.written
    /\ sent' = sent \cup { f.written[j].n : j \in 1 .. Len(f.written) }
    /\ descriptors' = os_close(descriptors, f.written)

\* display.flush(), called by the owner
ApiFlush(k) ==
    /\ OwnerCalls
    /\ LET f == flush(send_queue, k)
       IN  /\ FlushState(f)
           /\ IF f.exc # "" THEN Raise("flush", f.exc)
              ELSE /\ result' = Returned("flush", f.ret)
                   /\ UNCHANGED <<call, dpq, dsp, rt>>
    /\ UNCHANGED <<proxies, objects, oids, reusable_oids, queues,
                   read_partial_event, incoming_fds, s2c, invoked, issued, emitted>>

(***************************************************************************)
(* _Display.recv.                                                          *)
(***************************************************************************)
\* the fds of the control messages that come with the first k words
RECURSIVE FdsOf(_)
FdsOf(ws) == IF ws = << >> THEN << >> ELSE Head(ws).fds \o FdsOf(Tail(ws))

\* a recv that decodes what recvmsg returned without the partial event kept
\* from the call before
recv_forgets_partial(partial, prx, objs, qs, fds, sock, k) ==
    decode([data |-> [j \in 1 .. k |-> sock[j].w],
            proxies |-> prx, objects |-> objs, queues |-> qs,
            incoming_fds |-> fds \o FdsOf(Take(sock, k)), exc |-> ""])

\* recv on a connection with the given partial event, proxies, registry,
\* queues and fd queue when recvmsg returns the first k words of sock: extend
\* the fd queue, add the data to the partial event, decode
recv_decode(partial, prx, objs, qs, fds, sock, k) ==
    decode([data |-> partial \o [j \in 1 .. k |-> sock[j].w],
            proxies |-> prx, objects |-> objs, queues |-> qs,
            incoming_fds |-> fds \o FdsOf(Take(sock, k)), exc |-> ""])

\* recvmsg returns the first k words in the socket
recv(k) ==
    recv_decode(read_partial_event, proxies, objects, queues, incoming_fds,
                s2c, k)

RecvState(k, m) ==
    /\ s2c' = Drop(s2c, k)
    /\ proxies' = m.proxies
    /\ objects' = m.objects
    /\ queues' = m.queues
    /\ incoming_fds' = m.incoming_fds
    /\ read_partial_event' = IF m.exc = "" THEN m.data ELSE read_partial_event
    /\ Len(proxies') <= MaxProxies

\* display.recv(), called by the owner with k words readable
ApiRecv(k) ==
    /\ OwnerCalls
    /\ UNCHANGED descriptors
    /\ LET m == recv(k)
       IN  /\ RecvState(k, m)
           /\ IF m.exc # "" THEN Raise("recv", m.exc)
              ELSE /\ result' = Returned("recv", 1)
                   /\ UNCHANGED <<call, dpq, dsp, rt>>
    /\ UNCHANGED <<oids, reusable_oids, send_queue, c2s, invoked, issued, sent,
                   emitted>>

\* display.recv() with nothing to read: recvmsg reports would-block
ApiRecvNoData ==
    /\ OwnerCalls
    /\ UNCHANGED descriptors
    /\ s2c = << >>
    /\ result' = Returned("recv", 0)
    /\ UNCHANGED <<proxies, objects, oids, reusable_oids, queues, send_queue,
                   read_partial_event, incoming_fds, c2s, s2c, call, dpq, dsp, rt,
                   invoked, issued, sent, emitted>>

(***************************************************************************)
(* ClientProxy.dispatch_event and the handlers.                            *)
(***************************************************************************)
\* a dispatch_event without "if self.destroyed: return"
handler_of_ignores_destroyed(px, event) == px.dispatcher[event]

\* the callable dispatch_event calls for an entry ("": none is called)
handler_of(px, event) == IF px.destroyed THEN "" ELSE px.dispatcher[event]

\* proxy.dispatch_event(event, args): what the handler leaves behind.
\* "_delete_id" and "_error_event" are installed by _Display.__init__,
\* "set_ready" by roundtrip; "resync" is a handler of the owner that calls
\* display.sync().
dispatch_event(e) ==
    LET f == handler_of(proxies[e.proxy], e.event)
        base == [proxies |-> proxies, objects |-> objects, oids |-> oids,
                 reusable_oids |-> reusable_oids, rt |-> rt, call |-> NoCall,
                 exc |-> "", err |-> NoError, called |-> f # ""]
    IN  CASE f = "_delete_id" ->
               LET d == delete_id(objects, proxies, reusable_oids, e.args[1])
               IN  [base EXCEPT !.objects = d.objects, !.proxies = d.proxies,
                                !.reusable_oids = d.reusable_oids, !.exc = d.exc]
          [] f = "_error_event" ->
               [base EXCEPT !.exc = "DisplayError",
                            !.err = error_event(<<PyProxy(e.proxy),
                                                  PyProxy(e.args[1]),
                                                  PyInt(e.args[2]),
                                                  PyStr(e.args[3])>>)]
          [] f = "set_ready" ->
               [base EXCEPT !.rt = IF rt.active /\ rt.l = e.proxy
                                   THEN [rt EXCEPT !.ready = TRUE] ELSE rt]
          [] f = "resync" ->
               LET o == invoke_marshal(Display, Requests("wl_display")[1], << >>)
               IN  [base EXCEPT !.proxies = o.m.proxies, !.objects = o.m.objects,
                                !.oids = o.m.oids,
                                !.reusable_oids = o.m.reusable_oids,
                                !.call = IF o.kind = "marshalled" THEN o.call
                                         ELSE NoCall,
                                !.exc = IF o.kind = "raise" THEN o.exc ELSE ""]
          [] OTHER -> base

(***************************************************************************)
(* _Display.dispatch_pending.                                              *)
(***************************************************************************)
\* "if not queue: queue = self._default_queue"
dispatch_pending_queue(q) == IF queues[q] = << >> THEN DefaultQueue ELSE q

\* the queue "e = self._default_queue.pop(0)" pops while looping on q
pop_queue(q) == DefaultQueue

\* display.dispatch_pending(queue), called by the owner
ApiDispatchPending(q) ==
    /\ OwnerCalls
    /\ UNCHANGED descriptors
    /\ dpq' = dispatch_pending_queue(q)
    /\ UNCHANGED <<proxies, objects, oids, reusable_oids, queues, send_queue,
                   read_partial_event, incoming_fds, c2s, s2c, call, dsp, rt,
                   result, invoked, issued, sent, emitted>>

\* a dispatch_pending whose loop also writes the send queue to the socket
dispatch_pending_flushes ==
    /\ send_queue' = << >>
    /\ c2s' = c2s \o send_queue
    /\ sent' = sent \cup { send_queue[j].n : j \in 1 .. Len(send_queue) }
    /\ UNCHANGED <<read_partial_event, incoming_fds, s2c, issued, emitted>>

\* what a turn of the loop of dispatch_pending does to the socket and to the
\* buffers of the connection: nothing, its body makes no socket call
dispatch_pending_leaves ==
    UNCHANGED <<send_queue, read_partial_event, incoming_fds, c2s, s2c, issued,
                sent, emitted>>

\* a turn of the loop that takes the entry off the queue only when neither
\* the entry nor its handler raises
DispatchPendingPop_keeps_failed ==
    /\ UNCHANGED <<calls, interfaces, made, descriptors, codec>>
    /\ dpq # NoQueue
    /\ call = NoCall
    /\ queues[dpq] # << >>
    /\ IF queues[pop_queue(dpq)] = << >>
       THEN /\ Raise(TopOp, "IndexError")
            /\ UNCHANGED <<proxies, objects, oids, reusable_oids, queues, invoked>>
       ELSE LET e == Head(queues[pop_queue(dpq)])
                d == dispatch_event(e)
            IN  /\ queues' = IF e.exc # "" \/ d.exc # "" THEN queues
                              ELSE [queues EXCEPT ![pop_queue(dpq)] = Tail(@)]
                /\ IF e.exc # ""
                   THEN /\ Raise(TopOp, e.exc)
                        /\ UNCHANGED <<proxies, objects, oids, reusable_oids,
                                       invoked>>
                   ELSE /\ proxies' = d.proxies
                        /\ objects' = d.objects
                        /\ oids' = d.oids
                        /\ reusable_oids' = d.reusable_oids
                        /\ Len(proxies') <= MaxProxies
                        /\ invoked' = IF d.called
                                      THEN invoked \cup {<<e.proxy, e.event>>}
                                      ELSE invoked
                        /\ IF d.exc # "" THEN RaiseFrom(TopOp, d)
                           ELSE /\ call' = d.call
                                /\ rt' = d.rt
                                /\ UNCHANGED <<dpq, dsp, result>>
    /\ dispatch_pending_leaves

\* one turn of the while loop of dispatch_pending
DispatchPendingPop ==
    /\ UNCHANGED <<calls, interfaces, made, descriptors, codec>>
    /\ dpq # NoQueue
    /\ call = NoCall
    /\ queues[dpq] # << >>
    /\ IF queues[pop_queue(dpq)] = << >>
       THEN /\ Raise(TopOp, "IndexError")
            /\ UNCHANGED <<proxies, objects, oids, reusable_oids, queues, invoked>>
       ELSE LET e == Head(queues[pop_queue(dpq)])
                d == dispatch_event(e)
            IN  /\ queues' = [queues EXCEPT ![pop_queue(dpq)] = Tail(@)]
                /\ IF e.exc # ""
                   THEN /\ Raise(TopOp, e.exc)
                        /\ UNCHANGED <<proxies, objects, oids, reusable_oids,
                                       invoked>>
                   ELSE /\ proxies' = d.proxies
                        /\ objects' = d.objects
                        /\ oids' = d.oids
                        /\ reusable_oids' = d.reusable_oids
                        /\ Len(proxies') <= MaxProxies
                        /\ invoked' = IF d.called
                                      THEN invoked \cup {<<e.proxy, e.event>>}
                                      ELSE invoked
                        /\ IF d.exc # "" THEN RaiseFrom(TopOp, d)
                           ELSE /\ call' = d.call
                                /\ rt' = d.rt
                                /\ UNCHANGED <<dpq, dsp, result>>
    /\ dispatch_pending_leaves

\* the while loop of dispatch_pending ends: return to the caller
DispatchPendingReturn ==
    /\ UNCHANGED <<calls, interfaces, made, descriptors, codec>>
    /\ dpq # NoQueue
    /\ call = NoCall
    /\ queues[dpq] = << >>
    /\ dpq' = NoQueue
    /\ IF dsp = "pending"
       THEN /\ dsp' = "idle"
            /\ result' = IF rt.active THEN result ELSE Returned("dispatch", 0)
       ELSE /\ result' = Returned("dispatch_pending", 0)
            /\ UNCHANGED dsp
    /\ UNCHANGED <<proxies, objects, oids, reusable_oids, queues, send_queue,
                   read_partial_event, incoming_fds, c2s, s2c, call, rt, invoked,
                   issued, sent, emitted>>

(***************************************************************************)
(* _Display.dispatch.                                                      *)
(***************************************************************************)
\* "self.flush()" at the start of dispatch
DispatchBegin(op, k) ==
    LET f == flush(send_queue, k)
    IN  /\ FlushState(f)
        /\ IF f.exc # "" THEN Raise(op, f.exc)
           ELSE /\ dsp' = "wait"
                /\ UNCHANGED <<call, dpq, rt, result>>

\* display.dispatch(), called by the owner
ApiDispatch(k) ==
    /\ OwnerCalls
    /\ DispatchBegin("dispatch", k)
    /\ UNCHANGED <<proxies, objects, oids, reusable_oids, queues,
                   read_partial_event, incoming_fds, s2c, invoked, issued, emitted>>

\* "while not self._default_queue: select(...); self.recv()": select returns
\* when the socket is readable
DispatchWaitRecv(k) ==
    /\ UNCHANGED <<calls, interfaces, made, descriptors, codec>>
    /\ dsp = "wait"
    /\ queues[DefaultQueue] = << >>
    /\ LET m == recv(k)
       IN  /\ RecvState(k, m)
           /\ IF m.exc # "" THEN Raise(TopOp, m.exc)
              ELSE UNCHANGED <<call, dpq, dsp, rt, result>>
    /\ UNCHANGED <<oids, reusable_oids, send_queue, c2s, invoked, issued, sent,
                   emitted>>

\* "self.dispatch_pending()" at the end of dispatch
DispatchWaitDone ==
    /\ UNCHANGED <<calls, interfaces, made, descriptors, codec>>
    /\ dsp = "wait"
    /\ queues[DefaultQueue] # << >>
    /\ dsp' = "pending"
    /\ dpq' = DefaultQueue
    /\ UNCHANGED <<proxies, objects, oids, reusable_oids, queues, send_queue,
                   read_partial_event, incoming_fds, c2s, s2c, call, rt, result,
                   invoked, issued, sent, emitted>>

(***************************************************************************)
(* _Display.roundtrip.                                                     *)
(***************************************************************************)
\* display.roundtrip(), called by the owner: up to "l = self.sync()"
ApiRoundtrip ==
    /\ OwnerCalls
    /\ LET o == invoke_marshal(Display, Requests("wl_display")[1], << >>)
       IN  /\ InvokeState(o)
           /\ CASE o.kind = "raise" -> Raise("roundtrip", o.exc)
                [] o.kind = "ignore" -> Raise("roundtrip", "AttributeError")
                [] OTHER ->
                     /\ call' = o.call
                     /\ rt' = [active |-> TRUE, l |-> NoProxy, ready |-> FALSE,
                               mark |-> 0]
                     /\ UNCHANGED <<dpq, dsp, result>>
    /\ UNCHANGED <<queues, send_queue, read_partial_event, incoming_fds, c2s, s2c,
                   invoked, issued, sent, emitted>>

\* "while not ready": the loop ends
RoundtripReturn ==
    /\ UNCHANGED <<calls, interfaces, made, descriptors, codec>>
    /\ rt.active /\ rt.l # NoProxy
    /\ call = NoCall /\ dpq = NoQueue /\ dsp = "idle"
    /\ rt.ready
    /\ rt' = NoRoundtrip
    /\ result' = Returned("roundtrip", 0)
    /\ UNCHANGED <<proxies, objects, oids, reusable_oids, queues, send_queue,
                   read_partial_event, incoming_fds, c2s, s2c, call, dpq, dsp,
                   invoked, issued, sent, emitted>>

\* "while not ready: self.dispatch()"
RoundtripDispatch(k) ==
    /\ UNCHANGED <<calls, interfaces, made, codec>>
    /\ rt.active /\ rt.l # NoProxy
    /\ call = NoCall /\ dpq = NoQueue /\ dsp = "idle"
    /\ ~rt.ready
    /\ DispatchBegin("roundtrip", k)
    /\ UNCHANGED <<proxies, objects, oids, reusable_oids, queues,
                   read_partial_event, incoming_fds, s2c, invoked, issued, emitted>>

(***************************************************************************)
(* The owner's other calls.                                                *)
(***************************************************************************)
\* a set_queue that leaves the proxy on its queue
set_queue_ignored(px, new_queue) == px

\* ClientProxy.set_queue
set_queue(px, new_queue) == [px EXCEPT !.queue = new_queue]

\* proxy.set_queue(q), called by the owner
ApiSetQueue(p, q) ==
    /\ OwnerCalls
    /\ UNCHANGED descriptors
    /\ proxies[p].queue # q
    /\ proxies' = [proxies EXCEPT ![p] = set_queue(@, q)]
    /\ UNCHANGED <<objects, oids, reusable_oids, queues, send_queue,
                   read_partial_event, incoming_fds, c2s, s2c, call, dpq, dsp, rt,
                   result, invoked, issued, sent, emitted>>

\* proxy.dispatcher[ev] = handler, assigned by the owner
ApiSetHandler(p, ev) ==
    /\ OwnerCalls
    /\ UNCHANGED descriptors
    /\ proxies[p].dispatcher[ev] = ""
    /\ proxies' = [proxies EXCEPT ![p].dispatcher[ev] = "resync"]
    /\ UNCHANGED <<objects, oids, reusable_oids, queues, send_queue,
                   read_partial_event, incoming_fds, c2s, s2c, call, dpq, dsp, rt,
                   result, invoked, issued, sent, emitted>>

(***************************************************************************)
(* The compositor at the other end of the socket.                          *)
(***************************************************************************)
\* the words of a frame as the socket carries them, fds with the first word
Wire(ws, fds) ==
    [j \in 1 .. Len(ws) |-> [w |-> ws[j], fds |-> IF j = 1 THEN fds ELSE << >>]]

\* wl_callback.done(0) on nid, then wl_display.delete_id(nid)
SyncReply(nid) ==
    Wire(Frame(nid, 0, << 0 >>), << >>) \o Wire(Frame(1, 1, << nid >>), << >>)

\* the compositor reads one frame; it answers wl_display.sync
ServerRead ==
    /\ UNCHANGED <<calls, interfaces, made, descriptors, codec>>
    /\ c2s # << >>
    /\ LET b == Head(c2s).b
           reply == IF b[1] = 1 /\ b[2] % 65536 = 0 /\ Len(b) = 3 THEN SyncReply(b[3]) ELSE << >>
       IN  /\ Len(s2c) + Len(reply) <= MaxInFlight
           /\ s2c' = s2c \o reply
    /\ c2s' = Tail(c2s)
    /\ UNCHANGED <<proxies, objects, oids, reusable_oids, queues, send_queue,
                   read_partial_event, incoming_fds, call, dpq, dsp, rt, result,
                   invoked, issued, sent, emitted>>

\* the frames the compositor writes unasked: wl_display.delete_id(i); event 0
\* with one word on object 3 (a server-made id or a bound id as its value);
\* event 1 without arguments on object 3, with a descriptor; wl_display.error;
\* a header with size 0 on object 3; an event naming a server-made id followed
\* by the delete_id of that id
ServerFrames ==
    { Wire(Frame(1, 1, << i >>), << >>) : i \in 1 .. OidCeiling }
      \cup { Wire(Frame(3, 0, << v >>), << >>) : v \in {2, OidCeiling} }
      \cup { Wire(Frame(3, 1, << >>), << 7 >>) }
      \cup { Wire(Frame(1, 0, << 1, 2, 2, 97 >>), << >>) }
      \cup { Wire(<< 3, 0 >>, << >>) }
      \cup { Wire(Frame(3, 0, << OidCeiling >>), << >>)
               \o Wire(Frame(1, 1, << OidCeiling >>), << >>) }

\* the compositor writes fr, one of at most budget writes it makes unasked
Emit(fr, budget) ==
    /\ UNCHANGED <<calls, interfaces, made, descriptors, codec>>
    /\ emitted < budget
    /\ Len(s2c) + Len(fr) <= MaxInFlight
    /\ s2c' = s2c \o fr
    /\ emitted' = emitted + 1
    /\ UNCHANGED <<proxies, objects, oids, reusable_oids, queues, send_queue,
                   read_partial_event, incoming_fds, c2s, call, dpq, dsp, rt,
                   result, invoked, issued, sent>>

ServerEmit(fr) == Emit(fr, MaxEvents)

(***************************************************************************)
(* The codec at the level of bytes.  A Python int is held in two limbs,    *)
(* <<hi, lo>> for hi * 65536 + lo with lo in 0 .. 65535, so that the whole *)
(* of the unsigned 32-bit range and the values just outside it can be      *)
(* written; a fixed value is held as x, the value times 256.               *)
(***************************************************************************)
Half == 65536

\* the limbs of an integer
OfInt(v) == << v \div Half, v % Half >>

\* the integer of limbs in the signed 32-bit range
ToInt(n) == n[1] * Half + n[2]

\* the values the caller passes and the decoders return
VInt(n) == [t |-> "int", n |-> n, x |-> 0, isint |-> TRUE, s |-> << >>]

VFixed(x, isint) == [t |-> "fixed", n |-> << 0, 0 >>, x |-> x, isint |-> isint, s |-> << >>]

VStr(s) == [t |-> "str", n |-> << 0, 0 >>, x |-> 0, isint |-> FALSE, s |-> s]

\* None passed where a proxy is expected
VNone == [t |-> "None", n |-> << 0, 0 >>, x |-> 0, isint |-> FALSE, s |-> << >>]

\* a proxy, by its oid
VObj(oid) == [t |-> "object", n |-> OfInt(oid), x |-> 0, isint |-> FALSE, s |-> << >>]

\* an interface, by its name
VIface(name) == [t |-> "interface", n |-> << 0, 0 >>, x |-> 0, isint |-> FALSE, s |-> Utf8(name)]

\* a file descriptor
VFd(f) == [t |-> "fd", n |-> OfInt(f), x |-> 0, isint |-> FALSE, s |-> << >>]

\* what a marshaller or struct.pack gives: bytes, or the exception raised
Packed(b) == [exc |-> "", b |-> b]

PackError(exc) == [exc |-> exc, b |-> << >>]

\* what an unmarshaller gives: the value and the bytes left in argdata
Unpacked(v, rest) == [exc |-> "", v |-> v, rest |-> rest]

UnpackError(exc) == [exc |-> exc, v |-> VInt(<< 0, 0 >>), rest |-> << >>]

\* four bytes, least significant first, of the word whose halves are hi, lo
WordBytes(hi, lo) == << lo % 256, lo \div 256, hi % 256, hi \div 256 >>

\* struct.pack('I', n)
struct_pack_I(n) ==
    IF n[1] < 0 \/ n[1] >= Half THEN PackError("struct.error")
    ELSE Packed(WordBytes(n[1], n[2]))

\* struct.pack('i', n)
struct_pack_i(n) ==
    IF n[1] < -(Half \div 2) \/ n[1] >= Half \div 2 THEN PackError("struct.error")
    ELSE Packed(WordBytes(n[1] % Half, n[2]))

\* struct.unpack('I', b)
struct_unpack_I(b) ==
    IF Len(b) # 4 THEN UnpackError("struct.error")
    ELSE Unpacked(VInt(<< b[3] + 256 * b[4], b[1] + 256 * b[2] >>), << >>)

\* struct.unpack('i', b)
struct_unpack_i(b) ==
    IF Len(b) # 4 THEN UnpackError("struct.error")
    ELSE LET hi == b[3] + 256 * b[4]
         IN  Unpacked(VInt(<< IF hi >= Half \div 2 THEN hi - Half ELSE hi,
                               b[1] + 256 * b[2] >>), << >>)

\* the UTF-8 bytes of one code point
Utf8Char(cp) ==
    IF cp < 128 THEN << cp >>
    ELSE IF cp < 2048 THEN << 192 + (cp \div 64), 128 + (cp % 64) >>
    ELSE IF cp < 65536
    THEN << 224 + (cp \div 4096), 128 + ((cp \div 64) % 64), 128 + (cp % 64) >>
    ELSE << 240 + (cp \div 262144), 128 + ((cp \div 4096) % 64),
            128 + ((cp \div 64) % 64), 128 + (cp % 64) >>

\* a surrogate, which UTF-8 does not encode
IsSurrogate(cp) == cp >= 55296 /\ cp <= 57343

\* str.encode('utf-8') on a sequence of code points
RECURSIVE encode_utf8(_)
encode_utf8(s) ==
    IF s = << >> THEN Packed(<< >>)
    ELSE IF IsSurrogate(Head(s)) THEN PackError("UnicodeEncodeError")
    ELSE LET rest == encode_utf8(Tail(s))
         IN  IF rest.exc # "" THEN rest
             ELSE Packed(Utf8Char(Head(s)) \o rest.b)

\* how many bytes the sequence that starts with byte c takes, 0 for a byte
\* that starts none
Utf8Width(c) ==
    IF c < 128 THEN 1
    ELSE IF c >= 194 /\ c <= 223 THEN 2
    ELSE IF c >= 224 /\ c <= 239 THEN 3
    ELSE IF c >= 240 /\ c <= 244 THEN 4
    ELSE 0

\* the code point of the first w bytes of b
Utf8Point(b, w) ==
    CASE w = 1 -> b[1]
      [] w = 2 -> (b[1] - 192) * 64 + (b[2] - 128)
      [] w = 3 -> (b[1] - 224) * 4096 + (b[2] - 128) * 64 + (b[3] - 128)
      [] OTHER -> (b[1] - 240) * 262144 + (b[2] - 128) * 4096
                   + (b[3] - 128) * 64 + (b[4] - 128)

\* bytes.decode('utf-8'): the code points, or UnicodeDecodeError
RECURSIVE decode_utf8(_)
decode_utf8(b) ==
    IF b = << >> THEN Unpacked(VStr(<< >>), << >>)
    ELSE LET w == Utf8Width(b[1])
         IN  IF \/ w = 0
                \/ Len(b) < w
                \/ \E k \in 2 .. w : b[k] < 128 \/ b[k] > 191
             THEN UnpackError("UnicodeDecodeError")
             ELSE LET cp == Utf8Point(b, w)
                      rest == decode_utf8(Drop(b, w))
                  IN  IF \/ (w = 3 /\ (cp < 2048 \/ IsSurrogate(cp)))
                         \/ (w = 4 /\ (cp < 65536 \/ cp > 1114111))
                      THEN UnpackError("UnicodeDecodeError")
                      ELSE IF rest.exc # "" THEN rest
                      ELSE Unpacked(VStr(<< cp >> \o rest.v.s), << >>)

\* Arg_int.marshal
Arg_int_marshal_bytes(v) == struct_pack_i(v.n)

\* Arg_int.unmarshal
Arg_int_unmarshal_bytes(argdata) ==
    LET u == struct_unpack_i(Take(argdata, 4))
    IN  IF u.exc # "" THEN u ELSE Unpacked(u.v, Drop(argdata, 4))

\* Arg_uint.marshal
Arg_uint_marshal_bytes(v) == struct_pack_I(v.n)

\* Arg_uint.unmarshal
Arg_uint_unmarshal_bytes(argdata) ==
    LET u == struct_unpack_I(Take(argdata, 4))
    IN  IF u.exc # "" THEN u ELSE Unpacked(u.v, Drop(argdata, 4))

\* v << 8 on an integer
ShiftLeft8(v) == << v \div 256, (v % 256) * 256 >>

\* int(v) on the float x / 256: towards zero
IntOfFloat(x) == IF x >= 0 \/ x % 256 = 0 THEN x \div 256 ELSE (x \div 256) + 1

\* int((v % 1.0) * 256) on the float x / 256: the remainder takes the sign of
\* the divisor
FractionTimes256(x) == x % 256

\* Arg_fixed.marshal
Arg_fixed_marshal_bytes(v) ==
    LET m == IF v.isint THEN ShiftLeft8(v.x \div 256)
             ELSE << ShiftLeft8(IntOfFloat(v.x))[1],
                     ShiftLeft8(IntOfFloat(v.x))[2] + FractionTimes256(v.x) >>
    IN  struct_pack_i(m)

\* Arg_fixed.unmarshal: float(m >> 8) + ((m & 0xff) / 256.0), times 256
Arg_fixed_unmarshal_bytes(argdata) ==
    LET u == struct_unpack_i(Take(argdata, 4))
        m == ToInt(u.v.n)
    IN  IF u.exc # "" THEN u
        ELSE Unpacked(VFixed((m \div 256) * 256 + (m % 256), FALSE), Drop(argdata, 4))

\* Arg_string.marshal
Arg_string_marshal_bytes(v) ==
    LET estr == encode_utf8(v.s)
    IN  IF estr.exc # "" THEN estr
        ELSE Packed(struct_pack_I(OfInt(Len(estr.b) + 1)).b \o estr.b
                      \o Zeros(4 - (Len(estr.b) % 4)))

\* Arg_string.unmarshal that skips to the next multiple of 4
Arg_string_unmarshal_bytes_aligned(argdata) ==
    LET u == struct_unpack_I(Take(argdata, 4))
        l == ToInt(u.v.n) - 1
        d == decode_utf8(Take(Drop(argdata, 4), l))
    IN  IF u.exc # "" THEN u
        ELSE IF ToInt(u.v.n) <= 0 THEN UnpackError("AssertionError")
        ELSE IF d.exc # "" THEN d
        ELSE Unpacked(d.v, Drop(argdata, 4 + l + ((4 - (l % 4)) % 4)))

\* Arg_string.unmarshal
Arg_string_unmarshal_bytes(argdata) ==
    LET u == struct_unpack_I(Take(argdata, 4))
        l == ToInt(u.v.n) - 1
        d == decode_utf8(Take(Drop(argdata, 4), l))
    IN  IF u.exc # "" THEN u
        ELSE IF ToInt(u.v.n) <= 0 THEN UnpackError("AssertionError")
        ELSE IF d.exc # "" THEN d
        ELSE Unpacked(d.v, Drop(argdata, 4 + l + (4 - (l % 4))))

\* Arg_object.marshal
Arg_object_marshal_bytes(a, v) ==
    IF v.t # "None" THEN struct_pack_I(v.n)
    ELSE IF a.allow_null THEN struct_pack_I(<< 0, 0 >>)
    ELSE PackError("NullArgumentException")

\* Arg_new_id.marshal_for_request: the bytes, for the id nid that
\* _get_new_oid gave; args holds the caller's interface and version when the
\* argument names no interface
Arg_new_id_marshal_bytes(a, args, nid) ==
    IF a.interface # "" THEN struct_pack_I(OfInt(nid))
    ELSE LET iname == args[1].s
             version == struct_pack_I(args[2].n)
         IN  IF version.exc # "" THEN version
             ELSE Packed(struct_pack_I(OfInt(Len(iname) + 1)).b \o iname
                           \o Zeros(4 - (Len(iname) % 4))
                           \o version.b \o struct_pack_I(OfInt(nid)).b)

\* how many of the caller's args the argument pops
Pops(a) ==
    IF a.type = "new_id" THEN (IF a.interface # "" THEN 0 ELSE 2) ELSE 1

\* a.marshal_for_request(args, self): the bytes
marshal_for_request_bytes(a, args, nid) ==
    CASE a.type = "int" -> Arg_int_marshal_bytes(args[1])
      [] a.type = "uint" -> Arg_uint_marshal_bytes(args[1])
      [] a.type = "fixed" -> Arg_fixed_marshal_bytes(args[1])
      [] a.type = "string" -> Arg_string_marshal_bytes(args[1])
      [] a.type = "object" -> Arg_object_marshal_bytes(a, args[1])
      [] a.type = "new_id" -> Arg_new_id_marshal_bytes(a, args, nid)
      [] OTHER -> Packed(<< >>)

\* the for loop of _marshal_request and bytes().join(al)
RECURSIVE marshal_args_bytes(_, _, _)
marshal_args_bytes(as, args, nid) ==
    IF as = << >> THEN Packed(<< >>)
    ELSE LET b == marshal_for_request_bytes(Head(as), args, nid)
             rest == marshal_args_bytes(Tail(as), Drop(args, Pops(Head(as))), nid)
         IN  IF b.exc # "" THEN b
             ELSE IF rest.exc # "" THEN rest
             ELSE Packed(b.b \o rest.b)

\* struct.pack('II', oid, (size << 16) | opcode) for an opcode below 65536
Header(oid, size, opcode) ==
    LET id == struct_pack_I(OfInt(oid))
        word == struct_pack_I(<< size, opcode >>)
    IN  IF id.exc # "" THEN id
        ELSE IF word.exc # "" THEN word
        ELSE Packed(id.b \o word.b)

\* _marshal_request whose header counts the arguments only
marshal_request_bytes_args_only(oid, r, args, nid) ==
    LET al == marshal_args_bytes(r.args, args, nid)
        b == Header(oid, Len(al.b), r.opcode)
    IN  IF al.exc # "" THEN al
        ELSE IF b.exc # "" THEN b
        ELSE Packed(b.b \o al.b)

\* ClientProxy._marshal_request: the frame handed to _queue_request
marshal_request_bytes(oid, r, args, nid) ==
    LET al == marshal_args_bytes(r.args, args, nid)
        b == Header(oid, Len(al.b) + 8, r.opcode)
    IN  IF al.exc # "" THEN al
        ELSE IF b.exc # "" THEN b
        ELSE Packed(b.b \o al.b)

\* nothing has been encoded
NoCodec ==
    [kind |-> "none", req |-> "", args |-> << >>, b |-> << >>, exc |-> "",
     out |-> << >>, rest |-> << >>]

(***************************************************************************)
(* The values the codec is applied to.                                     *)
(***************************************************************************)
\* the code points strings are made of: NUL, a, e-acute, the euro sign, an
\* emoji outside the basic plane, and a lone surrogate
Chars == {0, 97, 233, 8364, 128512, 55357}

RECURSIVE StringsOfLen(_)
StringsOfLen(n) ==
    IF n = 0 THEN { << >> }
    ELSE { << c >> \o s : c \in Chars, s \in StringsOfLen(n - 1) }

Strings == UNION { StringsOfLen(n) : n \in 0 .. MaxStringLen }

\* the ends of the signed and unsigned 32-bit ranges, and the values next to
\* them
IntInputs ==
    { OfInt(v) : v \in (0 - MaxInt) .. MaxInt }
      \cup { << 0 - 32768, 0 >>, << 32767, 65535 >>, << 32768, 0 >>,
             << 0 - 32769, 65535 >> }

UintInputs ==
    { OfInt(v) : v \in 0 .. MaxInt }
      \cup { << 32768, 0 >>, << 65535, 65535 >>, << 65536, 0 >>, OfInt(0 - 1) }

InInt32(n) == n[1] >= 0 - 32768 /\ n[1] <= 32767

InUint32(n) == n[1] >= 0 /\ n[1] <= 65535

\* floats that are multiples of 1/256 and ints, in the signed 24.8 range
FixedInputs ==
    { VFixed(x, FALSE) :
        x \in ((0 - MaxFixed) .. MaxFixed)
                \cup { 0 - 2147483647 - 1, 0 - 2147483647, 2147483647 } }
      \cup { VFixed(256 * v, TRUE) :
               v \in ((0 - MaxFixedInt) .. MaxFixedInt) \cup { 0 - 8388608, 8388607 } }

\* the bytes of the argument that follows a string in argdata
Tails == { << >>, << 7, 0, 0, 0 >> }

\* requests in the shape of wl_surface.attach, wl_shell_surface.set_title,
\* wl_data_offer.receive, wp_viewport.set_destination with fixed sizes,
\* wl_registry.bind, wl_display.sync and wl_subsurface.place_above
CodecRequests ==
    { MkRequest("attach", 1, 1, FALSE,
                << MkArg("buffer", "object", "wl_buffer", TRUE),
                   MkArg("x", "int", "", FALSE), MkArg("y", "int", "", FALSE) >>),
      MkRequest("set_title", 8, 1, FALSE, << MkArg("title", "string", "", FALSE) >>),
      MkRequest("receive", 1, 1, FALSE,
                << MkArg("mime_type", "string", "", FALSE),
                   MkArg("fd", "fd", "", FALSE) >>),
      MkRequest("set_source", 1, 1, FALSE,
                << MkArg("x", "fixed", "", FALSE), MkArg("y", "fixed", "", FALSE) >>),
      MkRequest("bind", 0, 1, FALSE,
                << MkArg("name", "uint", "", FALSE), MkArg("id", "new_id", "", FALSE) >>),
      MkRequest("sync", 0, 1, FALSE,
                << MkArg("callback", "new_id", "wl_callback", FALSE) >>),
      MkRequest("place_above", 3, 1, FALSE,
                << MkArg("sibling", "object", "wl_surface", FALSE) >>),
      MkRequest("release", 4, 1, TRUE, << >>) }

\* what the caller may pass for one argument
CodecArgs(a) ==
    CASE a.type = "int" -> { << VInt(OfInt(v)) >> : v \in {0 - 1, 640} }
      [] a.type = "uint" -> { << VInt(n) >> : n \in { << 0, 1 >>, << 65535, 65535 >> } }
      [] a.type = "fixed" -> { << VFixed(x, FALSE) >> : x \in {0 - 64, 384} }
      [] a.type = "string" -> { << VStr(s) >> : s \in Strings }
      [] a.type = "object" -> { << v >> : v \in { VNone, VObj(3) } }
      [] a.type = "new_id" ->
           IF a.interface # "" THEN { << >> }
           ELSE { << VIface(i), VInt(OfInt(v)) >> :
                    i \in {"wl_seat", "wl_data_device"}, v \in {1, 2} }
      [] OTHER -> { << VFd(5) >> }

\* what the caller may pass for the arguments of a request
RECURSIVE CodecArgChoices(_)
CodecArgChoices(as) ==
    IF as = << >> THEN { << >> }
    ELSE { h \o t : h \in CodecArgs(Head(as)), t \in CodecArgChoices(Tail(as)) }

(***************************************************************************)
(* The connection after _Display.__init__.                                 *)
(***************************************************************************)
\* no descriptor has been duplicated
NoFds == [dups |-> 0, open |-> {}]


(***************************************************************************)
(* Protocol.__init__.  An Interface object is known by the number of its    *)
(* construction; Protocol.interfaces maps interface names to these.         *)
(***************************************************************************)
\* the interface elements of the protocol file the display is made from
CoreProtocol ==
    <<"wl_display", "wl_callback", "wl_registry", "wl_data_device",
      "wl_data_offer", "wl_seat">>

\* interface names a protocol file loaded later may declare
ChildNames == {"wl_display", "xdg_wm_base", "xdg_surface"}

\* the lists of interface elements of the protocol files loaded later
ChildFiles ==
    UNION { [1 .. n -> ChildNames] : n \in 1 .. MaxChildInterfaces }

\* "self.interfaces = {}"
NoInterfaces == [n \in {} |-> 0]

\* a turn of the loop that binds the name to the new Interface whether or
\* not the name is already a key
load_interface_replaces(l, name) ==
    [l EXCEPT !.made = l.made + 1,
              !.interfaces = DictSet(l.interfaces, name, l.made + 1)]

\* one turn of the loop of Protocol.__init__ for an interface element:
\* construct the Interface, raise if its name is a key of the mapping,
\* else insert it
load_interface(l, name) ==
    IF name \in DOMAIN l.interfaces
    THEN [l EXCEPT !.made = l.made + 1, !.exc = "DuplicateInterfaceName"]
    ELSE [l EXCEPT !.made = l.made + 1,
                   !.interfaces = DictSet(l.interfaces, name, l.made + 1)]

\* the loop of Protocol.__init__ over the interface elements of the file
RECURSIVE load_interfaces(_, _)
load_interfaces(l, names) ==
    IF names = << >> \/ l.exc # "" THEN l
    ELSE load_interfaces(load_interface(l, Head(names)), Tail(names))

\* Protocol(file, parent): the mapping is the parent's own dictionary if a
\* parent is given, a new one otherwise
Protocol_init(names, has_parent, parent_interfaces, n) ==
    load_interfaces([interfaces |-> IF has_parent THEN parent_interfaces
                                    ELSE NoInterfaces,
                     made |-> n, exc |-> ""], names)

\* Protocol(file, parent = the display's protocol), called by the owner
ApiProtocol(names) ==
    /\ Idle
    /\ calls < MaxCalls
    /\ calls' = calls + 1
    /\ UNCHANGED <<descriptors, codec>>
    /\ LET l == Protocol_init(names, TRUE, interfaces, made)
       IN  /\ interfaces' = l.interfaces
           /\ made' = l.made
           /\ IF l.exc # "" THEN Raise("Protocol", l.exc)
              ELSE /\ result' = Returned("Protocol", 0)
                   /\ UNCHANGED <<call, dpq, dsp, rt>>
    /\ UNCHANGED <<proxies, objects, oids, reusable_oids, queues, send_queue,
                   read_partial_event, incoming_fds, c2s, s2c, invoked, issued,
                   sent, emitted>>

Init ==
    /\ proxies = << [ClientProxy("wl_display", 1, DefaultQueue, 1) EXCEPT
                        !.dispatcher["error"] = "_error_event",
                        !.dispatcher["delete_id"] = "_delete_id"] >>
    /\ objects = [k \in {1} |-> Display]
    /\ oids = 2
    /\ reusable_oids = << >>
    /\ queues = [q \in QueueIds |-> << >>]
    /\ send_queue = << >>
    /\ read_partial_event = << >>
    /\ incoming_fds = << >>
    /\ c2s = << >>
    /\ s2c = << >>
    /\ call = NoCall
    /\ dpq = NoQueue
    /\ dsp = "idle"
    /\ rt = NoRoundtrip
    /\ result = Returned("init", 0)
    /\ invoked = {}
    /\ issued = 0
    /\ sent = {}
    /\ emitted = 0
    /\ calls = 0
    /\ interfaces = Protocol_init(CoreProtocol, FALSE, NoInterfaces, 0).interfaces
    /\ made = Protocol_init(CoreProtocol, FALSE, NoInterfaces, 0).made
    /\ descriptors = NoFds
    /\ codec = NoCodec

Next ==
    \/ \E p \in 1 .. Len(proxies) :
         \E i \in 1 .. Len(Requests(proxies[p].interface)) :
           \E args \in ArgChoices(Requests(proxies[p].interface)[i]) :
             ApiInvoke(p, Requests(proxies[p].interface)[i], args)
    \/ InvokeQueue
    \/ \E k \in 0 .. Len(send_queue) : ApiFlush(k)
    \/ \E k \in 1 .. Len(s2c) : ApiRecv(k)
    \/ ApiRecvNoData
    \/ \E q \in QueueIds : ApiDispatchPending(q)
    \/ DispatchPendingPop
    \/ DispatchPendingReturn
    \/ \E k \in 0 .. Len(send_queue) : ApiDispatch(k)
    \/ \E k \in 1 .. Len(s2c) : DispatchWaitRecv(k)
    \/ DispatchWaitDone
    \/ ApiRoundtrip
    \/ RoundtripReturn
    \/ \E k \in 0 .. Len(send_queue) : RoundtripDispatch(k)
    \/ \E p \in 1 .. Len(proxies) : \E q \in QueueIds : ApiSetQueue(p, q)
    \/ \E p \in 1 .. Len(proxies) :
         \E ev \in EventNames(proxies[p].interface) : ApiSetHandler(p, ev)
    \/ ServerRead
    \/ \E fr \in ServerFrames : ServerEmit(fr)

Spec == Init /\ [][Next]_vars

(***************************************************************************)
(* A connection on which the owner has bound a wl_seat: get_registry and   *)
(* bind were sent, the compositor writes keymap events with descriptors.   *)
(***************************************************************************)
\* the handle of the wl_registry proxy and of the wl_seat proxy
Registry == 2
Seat == 3

\* wl_seat.keymap(1, fd) with descriptor 7, alone or followed by a second
\* one with descriptor 8; wl_display.delete_id of the seat's id
SeatFrames ==
    { Wire(Frame(3, 0, << 1 >>), << 7 >>),
      Wire(Frame(3, 0, << 1 >>), << 7 >>) \o Wire(Frame(3, 0, << 1 >>), << 8 >>),
      Wire(Frame(1, 1, << 3 >>), << >>) }

\* the connection after display.get_registry(), registry.bind(name, wl_seat,
\* version) and a flush; the owner may have set a handler for keymap
InitSeat ==
    /\ \E v \in {1, 2} : \E h \in {"", "on_keymap"} :
         proxies = << [ClientProxy("wl_display", 1, DefaultQueue, 1) EXCEPT
                          !.dispatcher["error"] = "_error_event",
                          !.dispatcher["delete_id"] = "_delete_id"],
                      ClientProxy("wl_registry", 2, DefaultQueue, 1),
                      [ClientProxy("wl_seat", 3, DefaultQueue, v) EXCEPT
                          !.dispatcher["keymap"] = h] >>
    /\ objects = [k \in {1, 2, 3} |-> k]
    /\ oids = 4
    /\ reusable_oids = << >>
    /\ queues = [q \in QueueIds |-> << >>]
    /\ send_queue = << >>
    /\ read_partial_event = << >>
    /\ incoming_fds = << >>
    /\ c2s = << >>
    /\ s2c = << >>
    /\ call = NoCall
    /\ dpq = NoQueue
    /\ dsp = "idle"
    /\ rt = NoRoundtrip
    /\ result = Returned("flush", 1)
    /\ invoked = {}
    /\ issued = 2
    /\ sent = {1, 2}
    /\ emitted = 0
    /\ calls = 0
    /\ interfaces = Protocol_init(CoreProtocol, FALSE, NoInterfaces, 0).interfaces
    /\ made = Protocol_init(CoreProtocol, FALSE, NoInterfaces, 0).made
    /\ descriptors = NoFds
    /\ codec = NoCodec

NextSeat ==
    \/ \E p \in 1 .. Len(proxies) :
         \E i \in 1 .. Len(Requests(proxies[p].interface)) :
           \E args \in ArgChoices(Requests(proxies[p].interface)[i]) :
             ApiInvoke(p, Requests(proxies[p].interface)[i], args)
    \/ InvokeQueue
    \/ \E k \in 0 .. Len(send_queue) : ApiFlush(k)
    \/ \E k \in 1 .. Len(s2c) : ApiRecv(k)
    \/ \E q \in QueueIds : ApiDispatchPending(q)
    \/ DispatchPendingPop
    \/ DispatchPendingReturn
    \/ ServerRead
    \/ \E fr \in SeatFrames : ServerEmit(fr)

SpecSeat == InitSeat /\ [][NextSeat]_vars

(***************************************************************************)
(* A connection on which the owner has bound a wl_data_device, and a       *)
(* compositor that writes events for it and for the display, well formed   *)
(* or not, the owner receiving and dispatching them through two queues.    *)
(***************************************************************************)
\* the connection after display.get_registry(), registry.bind(name,
\* wl_data_device, 2) and a flush; the owner may have set a handler for
\* data_offer
InitEvents ==
    /\ \E h \in {"", "on_data_offer"} :
         proxies = << [ClientProxy("wl_display", 1, DefaultQueue, 1) EXCEPT
                          !.dispatcher["error"] = "_error_event",
                          !.dispatcher["delete_id"] = "_delete_id"],
                      ClientProxy("wl_registry", 2, DefaultQueue, 1),
                      [ClientProxy("wl_data_device", 3, DefaultQueue, 2) EXCEPT
                          !.dispatcher["data_offer"] = h] >>
    /\ objects = [k \in {1, 2, 3} |-> k]
    /\ oids = 4
    /\ reusable_oids = << >>
    /\ queues = [q \in QueueIds |-> << >>]
    /\ send_queue = << >>
    /\ read_partial_event = << >>
    /\ incoming_fds = << >>
    /\ c2s = << >>
    /\ s2c = << >>
    /\ call = NoCall
    /\ dpq = NoQueue
    /\ dsp = "idle"
    /\ rt = NoRoundtrip
    /\ result = Returned("flush", 1)
    /\ invoked = {}
    /\ issued = 2
    /\ sent = {1, 2}
    /\ emitted = 0
    /\ calls = 0
    /\ interfaces = Protocol_init(CoreProtocol, FALSE, NoInterfaces, 0).interfaces
    /\ made = Protocol_init(CoreProtocol, FALSE, NoInterfaces, 0).made
    /\ descriptors = NoFds
    /\ codec = NoCodec

\* the owner's calls, and the frames the compositor writes:
\* wl_display.delete_id of the registry's and of the device's id;
\* wl_data_device.data_offer naming a server-made id or the registry's id;
\* wl_data_device.leave, once and twice; delete_id of the device followed by
\* a data_offer for it; delete_id of both ids; wl_display.error; a data_offer without its argument
\* and an event number the interface does not have, each followed by leave;
\* a frame for an id that is not bound; a header with size 0 and a word
\* after it
NextEvents ==
    LET EventFrames ==
        { Wire(Frame(1, 1, << i >>), << >>) : i \in {2, 3} }
          \cup { Wire(Frame(3, 0, << v >>), << >>) : v \in {2, OidCeiling} }
          \cup { Wire(Frame(3, 1, << >>), << >>),
                 Wire(Frame(3, 1, << >>) \o Frame(3, 1, << >>), << >>),
                 Wire(Frame(1, 1, << 3 >>) \o Frame(3, 0, << OidCeiling >>), << >>),
                 Wire(Frame(1, 1, << 2 >>) \o Frame(1, 1, << 3 >>), << >>),
                 Wire(Frame(1, 0, << 1, 2, 2, 97 >>), << >>),
                 Wire(Frame(3, 0, << >>) \o Frame(3, 1, << >>), << >>),
                 Wire(Frame(3, 5, << >>) \o Frame(3, 1, << >>), << >>),
                 Wire(Frame(9, 1, << 0 >>), << >>),
                 Wire(<< 3, 1, 0 >>, << >>) }
    IN  \/ \E k \in 1 .. Len(s2c) : ApiRecv(k)
        \/ \E q \in QueueIds : ApiDispatchPending(q)
        \/ DispatchPendingPop
        \/ DispatchPendingReturn
        \/ \E p \in 1 .. Len(proxies) : \E q \in QueueIds : ApiSetQueue(p, q)
        \/ \E fr \in EventFrames : Emit(fr, MaxScenarioEvents)

SpecEvents == InitEvents /\ [][NextEvents]_vars

\* the owner loads further protocol files on top of the display's protocol
NextProtocol == \E names \in ChildFiles : ApiProtocol(names)

SpecProtocol == Init /\ [][NextProtocol]_vars

(***************************************************************************)
(* The codec applied once, outside a connection: an encoding made by a     *)
(* marshaller and handed to the unmarshaller of the same kind.             *)
(***************************************************************************)
Others ==
    <<proxies, objects, oids, reusable_oids, queues, send_queue, read_partial_event,
      incoming_fds, c2s, s2c, dpq, call, dsp, rt, result, invoked,
      issued, sent, emitted, calls, interfaces, made, descriptors>>

Decoded(args, p, u) ==
    [codec EXCEPT !.args = args, !.b = p.b,
                  !.exc = IF p.exc # "" THEN p.exc ELSE u.exc,
                  !.out = IF p.exc # "" \/ u.exc # "" THEN << >> ELSE << u.v >>,
                  !.rest = IF p.exc # "" THEN << >> ELSE u.rest]

CodecInt(n) ==
    /\ codec = NoCodec
    /\ LET p == Arg_int_marshal_bytes(VInt(n))
       IN  codec' = [Decoded(<< VInt(n) >>, p, Arg_int_unmarshal_bytes(p.b))
                       EXCEPT !.kind = "int"]
    /\ UNCHANGED Others

CodecUint(n) ==
    /\ codec = NoCodec
    /\ LET p == Arg_uint_marshal_bytes(VInt(n))
       IN  codec' = [Decoded(<< VInt(n) >>, p, Arg_uint_unmarshal_bytes(p.b))
                       EXCEPT !.kind = "uint"]
    /\ UNCHANGED Others

CodecFixed(v) ==
    /\ codec = NoCodec
    /\ LET p == Arg_fixed_marshal_bytes(v)
       IN  codec' = [Decoded(<< v >>, p, Arg_fixed_unmarshal_bytes(p.b))
                       EXCEPT !.kind = "fixed"]
    /\ UNCHANGED Others

CodecString(s, tail) ==
    /\ codec = NoCodec
    /\ LET p == Arg_string_marshal_bytes(VStr(s))
       IN  codec' = [Decoded(<< VStr(s), VStr(tail) >>, p,
                             Arg_string_unmarshal_bytes(p.b \o tail))
                       EXCEPT !.kind = "string"]
    /\ UNCHANGED Others

CodecRequest(oid, r, args, nid) ==
    /\ codec = NoCodec
    /\ LET p == marshal_request_bytes(oid, r, args, nid)
       IN  codec' = [codec EXCEPT !.kind = "request", !.req = r.name,
                                  !.args = args, !.b = p.b, !.exc = p.exc]
    /\ UNCHANGED Others

NextCodec ==
    \/ \E n \in IntInputs : CodecInt(n)
    \/ \E n \in UintInputs : CodecUint(n)
    \/ \E v \in FixedInputs : CodecFixed(v)
    \/ \E s \in Strings, tail \in Tails : CodecString(s, tail)
    \/ \E r \in CodecRequests, oid \in {1, 3}, nid \in {2, 4} :
         \E args \in CodecArgChoices(r.args) : CodecRequest(oid, r, args, nid)

SpecCodec == Init /\ [][NextCodec]_vars

(***************************************************************************)
(* Properties.                                                             *)
(***************************************************************************)
\* the step is the turn of dispatch_pending that pops entry (proxy, event)
\* and calls the proxy's handler for it
Dispatches(p, event) ==
    /\ dpq # NoQueue
    /\ call = NoCall
    /\ queues[dpq] # << >>
    /\ queues[pop_queue(dpq)] # << >>
    /\ Head(queues[pop_queue(dpq)]).proxy = p
    /\ Head(queues[pop_queue(dpq)]).event = event
    /\ handler_of(proxies[p], event) # ""
    /\ queues' = [queues EXCEPT ![pop_queue(dpq)] = Tail(@)]

\* the step dispatches wl_display.delete_id(i) to _delete_id
DispatchesDeleteId(i) ==
    /\ Dispatches(Display, "delete_id")
    /\ handler_of(proxies[Display], "delete_id") = "_delete_id"
    /\ Head(queues[pop_queue(dpq)]).args = << i >>

\* C1: when wl_display.delete_id(i) is dispatched for an id i bound in the
\* registry, afterwards i is not a key of the registry and the proxy that was
\* bound to i has its oid cleared, whether or not the proxy was destroyed by
\* a destructor request first.
C1_DeleteIdUnbinds ==
    [][\A i \in 0 .. OidCeiling :
         (DispatchesDeleteId(i) /\ i \in DOMAIN objects) =>
            /\ i \notin DOMAIN objects'
            /\ proxies'[objects[i]].oid = None]_vars

\* C1 happens: delete_id was dispatched for the id of a proxy on which a
\* destructor request had been sent
C1_Witness ==
    /\ <<Display, "delete_id">> \in invoked
    /\ \E p \in 1 .. Len(proxies) :
         /\ proxies[p].destroyed
         /\ proxies[p].oid = None
         /\ \A i \in DOMAIN objects : objects[i] # p

\* the step is the owner's call of request r on proxy p
OwnerInvokes(p, r) == \E args \in ArgChoices(r) : ApiInvoke(p, r, args)

\* the step is the owner's call of a destructor on a proxy whose oid is set
\* and on which no destructor has taken effect
InvokesDestructorFirst(p, r) ==
    /\ OwnerInvokes(p, r)
    /\ r.is_destructor
    /\ ~Falsy(proxies[p].oid)
    /\ ~proxies[p].destroyed

\* the call goes on to queue the frame of r on p
GoesOnToQueue(p, r) == call' # NoCall /\ call'.proxy = p /\ call'.request = r

\* a destructor's frame is queued: one frame more, on the proxy's oid, and the
\* proxy is marked destroyed
DestructorQueued ==
    (InvokeQueue /\ call.request.is_destructor) =>
        /\ Len(send_queue') = Len(send_queue) + 1
        /\ SubSeq(send_queue', 1, Len(send_queue)) = send_queue
        /\ Last(send_queue').b[1] = proxies[call.proxy].oid
        /\ proxies'[call.proxy].destroyed

\* a request on a destroyed proxy whose oid is set is dropped silently
LaterDropped(p, r) ==
    (OwnerInvokes(p, r) /\ proxies[p].destroyed /\ ~Falsy(proxies[p].oid)) =>
        /\ send_queue' = send_queue
        /\ call' = NoCall
        /\ oids' = oids
        /\ reusable_oids' = reusable_oids
        /\ objects' = objects
        /\ proxies' = proxies
        /\ result' = Returned("invoke", NoProxy)

\* C2 (amended): for a proxy with a destructor request, whose oid is set and
\* whose version is at least the destructor's since: the first invocation of
\* the destructor enqueues exactly one frame and sets destroyed; every later
\* invocation of any request on that proxy while its oid is set enqueues no
\* frame, allocates no id, raises no error and returns nothing.
C2_DestructorOnce ==
    [][/\ \A p \in 1 .. Len(proxies) :
            \A i \in 1 .. Len(Requests(proxies[p].interface)) :
              LET r == Requests(proxies[p].interface)[i]
              IN  /\ (InvokesDestructorFirst(p, r)
                        /\ proxies[p].version >= r.since) => GoesOnToQueue(p, r)
                  /\ LaterDropped(p, r)
       /\ DestructorQueued]_vars

\* C2 as stated: the first invocation of the destructor enqueues a frame and
\* sets destroyed whatever the proxy's version
C2_AsStated ==
    [][/\ \A p \in 1 .. Len(proxies) :
            \A i \in 1 .. Len(Requests(proxies[p].interface)) :
              LET r == Requests(proxies[p].interface)[i]
              IN  /\ InvokesDestructorFirst(p, r) => GoesOnToQueue(p, r)
                  /\ LaterDropped(p, r)
       /\ DestructorQueued]_vars

\* C2 happens: a destructor was sent on a proxy, and the owner's last call, a
\* request on a destroyed proxy whose oid is set, was dropped
C2_Witness ==
    /\ \E p \in 1 .. Len(proxies) :
         proxies[p].destroyed /\ ~Falsy(proxies[p].oid)
    /\ result = Returned("invoke", NoProxy)
    /\ calls = issued + 1
    /\ call = NoCall

\* the send queue, the registry and the id allocator are left as they were
QueueRegistryAllocatorUnchanged ==
    /\ send_queue' = send_queue
    /\ call' = NoCall
    /\ objects' = objects
    /\ oids' = oids
    /\ reusable_oids' = reusable_oids

Allocates ==
    /\ \/ \E p \in 1 .. Len(proxies) :
            \E i \in 1 .. Len(Requests(proxies[p].interface)) :
              OwnerInvokes(p, Requests(proxies[p].interface)[i])
       \/ ApiRoundtrip
       \/ DispatchPendingPop
    /\ Len(proxies') = Len(proxies) + 1

\* the id the client allocated in the step
Allocated == proxies'[Len(proxies')].oid

\* C4: an allocation returns the top of the reuse pile when the pile is not
\* empty and otherwise the next counter value; when delete_id(i) is dispatched
\* for a bound id i below the ceiling, i goes on top of the pile, and the pile
\* changes by nothing but allocations and delete_id, so that the next id
\* allocated is i; an id at or above the ceiling freed by delete_id is not
\* pushed, and the pile never holds one.
C4_AllocationOrder ==
    [][/\ Allocates =>
            IF reusable_oids # << >>
            THEN /\ Allocated = Last(reusable_oids)
                 /\ reusable_oids' = Front(reusable_oids)
                 /\ oids' = oids
            ELSE /\ Allocated = oids
                 /\ oids' = oids + 1
                 /\ reusable_oids' = << >>
       /\ \A i \in DOMAIN objects :
            DispatchesDeleteId(i) =>
              reusable_oids' = IF i < OidCeiling THEN Append(reusable_oids, i)
                               ELSE reusable_oids
       /\ reusable_oids' # reusable_oids =>
            \/ Allocates
            \/ \E i \in DOMAIN objects : DispatchesDeleteId(i)
       /\ \A j \in 1 .. Len(reusable_oids') : reusable_oids'[j] < OidCeiling]_vars

\* C4 happens: delete_id freed an id below the ceiling and a later request
\* made a proxy under that id instead of the next counter value
C4_Witness ==
    /\ <<Display, "delete_id">> \in invoked
    /\ reusable_oids = << >>
    /\ \E q \in 2 .. Len(proxies) :
         /\ proxies[q].interface \in {"wl_callback", "wl_registry", "wl_data_device"}
         /\ proxies[q].oid \in 2 .. (q - 1)
         /\ proxies[q].oid < oids
         /\ objects[proxies[q].oid] = q

\* C5: every id the client allocates for a new proxy lies in [2, OidCeiling):
\* neither the counter nor the reuse pile yields 0, 1 or an id at or above the
\* ceiling, whatever the requests of the client and the events of the server.
C5_AllocatedInRange ==
    [][Allocates => Allocated \in 2 .. (OidCeiling - 1)]_vars

\* C6: for every proxy whose oid is not cleared, the registry maps the oid to
\* that proxy: no two such proxies share an id and no insertion replaces a
\* registered proxy.
C6_RegistryMapsLiveProxies ==
    \A p \in 1 .. Len(proxies) :
      proxies[p].oid # None =>
        /\ proxies[p].oid \in DOMAIN objects
        /\ objects[proxies[p].oid] = p

\* request r has an argument of type new_id
HasNewId(r) == \E j \in 1 .. Len(r.args) : r.args[j].type = "new_id"

\* C7: at the step that appends the frame of a request with a new_id argument
\* to the send queue, the new proxy (the value returned to the caller) is
\* already bound in the registry under its fresh id, and that id is the one
\* the frame names.
C7_BoundBeforeQueued ==
    [][(InvokeQueue /\ HasNewId(call.request)) =>
          /\ call.rval # NoProxy
          /\ proxies[call.rval].oid \in DOMAIN objects
          /\ objects[proxies[call.rval].oid] = call.rval
          /\ Len(send_queue') = Len(send_queue) + 1
          /\ Last(Last(send_queue').b) = proxies[call.rval].oid]_vars

\* C7 happens: the owner's last call returned a new proxy, and the frame that
\* names its id is in the send queue
C7_Witness ==
    /\ result.op = "invoke" /\ result.kind = "return" /\ result.val # NoProxy
    /\ send_queue # << >>
    /\ Last(Last(send_queue).b) = proxies[result.val].oid
    /\ Lookup(objects, proxies[result.val].oid) = result.val

\* C8: when roundtrip returns, the done event of the callback made by its own
\* sync has been dispatched to that callback's handler, and every request
\* issued up to that sync has been written to the socket.
C8_RoundtripObserved ==
    [][RoundtripReturn =>
          /\ <<rt.l, "done">> \in invoked
          /\ \A n \in 1 .. rt.mark : n \in sent]_vars

\* C9: when the server answers every sync with done and delete_id and writes
\* nothing else (so that no failure marker and no display error is ever
\* dispatched), a roundtrip in progress ends only by returning: it is never
\* ended by an exception, after which it would not return.
C9_RoundtripReturns ==
    [][(rt.active /\ ~rt'.active /\ emitted = 0) => result'.kind = "return"]_vars

\* C10: from its call to its end, dispatch_pending (for any queue argument,
\* called by the owner or by dispatch) performs no socket receive and no
\* socket send: the partial-frame buffer and the incoming-fd queue are
\* unchanged, nothing is taken from the socket and nothing is written to it,
\* and the send queue changes only by the frame of a request that a handler
\* has issued.
C10_DispatchPendingNoSocket ==
    [][(dpq # NoQueue \/ dpq' # NoQueue) =>
          /\ read_partial_event' = read_partial_event
          /\ incoming_fds' = incoming_fds
          /\ Len(s2c') >= Len(s2c) /\ SubSeq(s2c', 1, Len(s2c)) = s2c
          /\ c2s' = c2s \/ (c2s # << >> /\ c2s' = Tail(c2s))
          /\ sent' = sent
          /\ \/ send_queue' = send_queue
             \/ /\ call # NoCall
                /\ send_queue' =
                     Append(send_queue,
                            [b |-> Frame(proxies[call.proxy].oid,
                                         call.request.opcode, call.al),
                             fds |-> call.fl, n |-> issued + 1])]_vars

\* C10 happens: dispatch, whose flush emptied the send queue, is in its
\* dispatch_pending, a handler has issued a request whose frame is in the send
\* queue, and a descriptor received earlier waits in the incoming-fd queue
C10_Witness ==
    /\ dsp = "pending"
    /\ dpq # NoQueue
    /\ call = NoCall
    /\ send_queue # << >>
    /\ incoming_fds # << >>

\* C11: dispatch_pending(q) for a queue q that holds entries loops on q, and
\* every turn of its loop takes the first entry of that queue, leaves the
\* other queues alone and dispatches that entry and no other; called for the
\* default queue it does this for the default queue.
C11_DispatchesGivenQueue ==
    [][/\ \A q \in QueueIds :
            (ApiDispatchPending(q) /\ (queues[q] # << >> \/ q = DefaultQueue)) =>
               dpq' = q
       /\ DispatchPendingPop =>
            /\ queues' = [queues EXCEPT ![dpq] = Tail(@)]
            /\ invoked' \subseteq
                 invoked \cup {<<Head(queues[dpq]).proxy, Head(queues[dpq]).event>>}
            /\ result'.exc # "IndexError"]_vars

\* C12: event queues are separated: dispatch_pending(q) for a non-default
\* queue q, empty or not, does not go on to loop on a default queue that
\* holds entries, and no turn of its loop on q changes the default queue,
\* whether the turn ends in a failure or not.
C12_QueuesSeparated ==
    [][/\ \A q \in QueueIds \ {DefaultQueue} :
            (ApiDispatchPending(q) /\ queues[DefaultQueue] # << >>) => dpq' = q
       /\ (DispatchPendingPop /\ dpq # DefaultQueue) =>
            queues'[DefaultQueue] = queues[DefaultQueue]]_vars

\* C13: when sendmsg reports would-block for the frame at the head of the
\* send queue, after k frames were written, flush() returns the partial
\* result without raising, and the send queue still holds that frame and the
\* frames behind it, with their fd lists, in the same order.
C13_WouldBlockKeepsQueue ==
    [][\A k \in 0 .. MaxInFlight :
         (ApiFlush(k) /\ k < Len(send_queue)) =>
            /\ result'.kind = "return"
            /\ result'.val = 0
            /\ send_queue' = Drop(send_queue, k)]_vars

\* the frames written to the socket are the first frames that were queued, and
\* the send queue holds all the later ones in the order they were queued
WrittenIsPrefix(q, written) ==
    /\ written = 1 .. (issued' - Len(q))
    /\ \A j \in 1 .. Len(q) : q[j].n = issued' - Len(q) + j

\* C14: after every step of the connection the frames written to the socket
\* are a prefix of the queued frames in the order of queueing, none lost,
\* written twice or out of order, and a flush() that meets no would-block
\* writes every frame that is left and returns success with the send queue
\* empty.
C14_NoFrameLost ==
    [][/\ WrittenIsPrefix(send_queue', sent')
       /\ ApiFlush(Len(send_queue)) =>
            /\ result' = Returned("flush", 1)
            /\ send_queue' = << >>
            /\ sent' = 1 .. issued]_vars

\* the outcome of decoding, as far as the connection keeps it
SameDecoding(a, b) ==
    /\ a.exc = b.exc
    /\ a.queues = b.queues
    /\ a.data = b.data
    /\ a.proxies = b.proxies
    /\ a.objects = b.objects
    /\ a.incoming_fds = b.incoming_fds

\* C15: when a stream of frames that decodes without a failure arrives cut
\* in two, at any word of it, the header's included, the recv() of the first
\* k words followed by a recv() of the next j words leaves the same queue
\* entries, the same proxies and the same partial-frame buffer as a single
\* recv() of the k + j words.
C15_ChunksReassemble ==
    [][\A k \in 1 .. MaxInFlight : \A j \in 1 .. MaxInFlight :
         (k + j <= Len(s2c) /\ ApiRecv(k) /\ recv(k + j).exc = "") =>
            SameDecoding(recv_decode(read_partial_event', proxies', objects',
                                     queues', incoming_fds', s2c', j),
                         recv(k + j))]_vars

\* a recv() has ended inside the header of a frame whose rest is in the socket
C15_Witness ==
    /\ result = Returned("recv", 1)
    /\ Len(read_partial_event) = 1
    /\ s2c # << >>

\* the data a recv() of k words decodes begins with a complete frame whose
\* object id is not bound in the registry
UnknownObjectArrives(k) ==
    LET data == read_partial_event \o [j \in 1 .. k |-> s2c[j].w]
    IN  /\ decode_more(data)
        /\ data[2] \div 65536 >= 8
        /\ data[2] \div 65536 <= 4 * Len(data)
        /\ Lookup(objects, data[1]) = NoProxy

\* C16: a recv() that meets a complete frame for an object id that is not
\* bound in the registry does not fail: it returns, and it has appended an
\* unknown-object failure marker to the default queue.
C16_UnknownObjectMarked ==
    [][\A k \in 1 .. MaxInFlight :
         (k <= Len(s2c) /\ ApiRecv(k) /\ UnknownObjectArrives(k)) =>
            /\ result' = Returned("recv", 1)
            /\ \E j \in 1 .. Len(queues'[DefaultQueue]) :
                  /\ j > Len(queues[DefaultQueue])
                  /\ queues'[DefaultQueue][j].exc = "UnknownObjectError"]_vars

\* C17: when dispatch_pending on the default queue dispatches a
\* wl_display.error(object, code, message) event to the display's error
\* handler, it raises DisplayError whose fields are the object proxy, the
\* integer code and the message string as they were decoded from the event.
C17_DisplayErrorFields ==
    [][(/\ dpq = DefaultQueue
        /\ Dispatches(Display, "error")
        /\ handler_of(proxies[Display], "error") = "_error_event") =>
          LET e == Head(queues[DefaultQueue])
          IN  /\ result'.kind = "raise"
              /\ result'.exc = "DisplayError"
              /\ result'.err.obj = PyProxy(e.args[1])
              /\ result'.err.code = PyInt(e.args[2])
              /\ result'.err.message = PyStr(e.args[3])]_vars

\* the data a recv() of k words decodes begins with a whole header that
\* declares a size smaller than the header itself
ImpossibleSizeArrives(k) ==
    LET data == read_partial_event \o [j \in 1 .. k |-> s2c[j].w]
    IN  /\ Len(data) >= 2
        /\ data[2] \div 65536 < 8

\* C18: a recv() that meets a frame whose header declares a size smaller
\* than the 8 bytes of the header raises ProtocolError, and it appends no
\* event to any queue.
C18_ImpossibleSizeRaises ==
    [][\A k \in 1 .. MaxInFlight :
         (k <= Len(s2c) /\ ApiRecv(k) /\ ImpossibleSizeArrives(k)) =>
            /\ result'.kind = "raise"
            /\ result'.exc = "ProtocolError"
            /\ queues' = queues]_vars

\* the file declares an interface name that the parent's mapping holds
DeclaresDuplicate(names) ==
    \E j \in 1 .. Len(names) : names[j] \in DOMAIN interfaces

\* C19: loading a child protocol whose file declares, at any position, an
\* interface name already present in the parent raises
\* DuplicateInterfaceName and leaves the parent's mapping with the same
\* names bound to the same Interface objects as before.
C19_DuplicateLeavesParent ==
    [][\A names \in ChildFiles :
         (ApiProtocol(names) /\ DeclaresDuplicate(names)) =>
            /\ result'.kind = "raise"
            /\ result'.exc = "DuplicateInterfaceName"
            /\ interfaces' = interfaces]_vars

\* C20: across successful and failed loads on one shared mapping an
\* interface name once present stays present and stays bound to the same
\* Interface object.
C20_MappingMonotonic ==
    [][\A n \in DOMAIN interfaces :
         /\ n \in DOMAIN interfaces'
         /\ interfaces'[n] = interfaces[n]]_vars

\* C20 happens: loads have added names to the mapping, an Interface that was
\* constructed for a name already present was not inserted, and the last
\* load failed on a duplicate
C20_Witness ==
    /\ result = Raised("Protocol", "DuplicateInterfaceName")
    /\ {"xdg_wm_base", "xdg_surface"} \subseteq DOMAIN interfaces
    /\ made > Cardinality(DOMAIN interfaces) + 1

\* C26: in every reachable state of the connection the registry binds id 1
\* to the display proxy and the display proxy's oid is 1.
C26_DisplayBoundToOne ==
    /\ 1 \in DOMAIN objects
    /\ objects[1] = Display
    /\ proxies[Display].oid = 1

\* the data a recv() of k words decodes is one whole frame, header-only
\* frames of 8 bytes included, for a proxy bound in the registry
WholeFrameArrives(k) ==
    LET data == read_partial_event \o [j \in 1 .. k |-> s2c[j].w]
    IN  /\ Len(data) >= 2
        /\ data[2] \div 65536 >= 8
        /\ data[2] \div 65536 = 4 * Len(data)
        /\ Lookup(objects, data[1]) # NoProxy
        /\ data[2] % 65536 < Len(Events(proxies[objects[data[1]]].interface))

\* C27: a recv() after which the buffered bytes are one complete frame, a
\* header-only frame of exactly 8 bytes included, appends the event to the
\* queue of its proxy and leaves nothing of the frame in the buffer.
C27_DecodedWhenComplete ==
    [][\A k \in 1 .. MaxInFlight :
         (k <= Len(s2c) /\ ApiRecv(k) /\ WholeFrameArrives(k)
            /\ recv(k).exc = "") =>
            LET data == read_partial_event \o [j \in 1 .. k |-> s2c[j].w]
                q == proxies[objects[data[1]]].queue
            IN  /\ read_partial_event' = << >>
                /\ Len(queues'[q]) = Len(queues[q]) + 1]_vars

\* the descriptors that the fd arguments of queue entries hold, in the
\* order of the entries and of the arguments (wl_seat.keymap has its
\* descriptor second)
RECURSIVE FdArgs(_)
FdArgs(entries) ==
    IF entries = << >> THEN << >>
    ELSE (IF Head(entries).exc = "" /\ Head(entries).event = "keymap"
          THEN << Head(entries).args[2] >> ELSE << >>)
         \o FdArgs(Tail(entries))

\* C24: a recv() hands the descriptors to the fd arguments it decodes in the
\* order of their arrival: the descriptors held by the entries it appends,
\* followed by the ones it leaves waiting, are the descriptors that waited
\* from earlier recv() calls followed by the ones this call received.
C24_FdsInArrivalOrder ==
    [][\A k \in 1 .. MaxInFlight :
         (k <= Len(s2c) /\ ApiRecv(k)) =>
            /\ Len(queues'[DefaultQueue]) >= Len(queues[DefaultQueue])
            /\ FdArgs(SubSeq(queues'[DefaultQueue],
                             Len(queues[DefaultQueue]) + 1,
                             Len(queues'[DefaultQueue])))
                 \o incoming_fds'
               = incoming_fds \o FdsOf(Take(s2c, k))]_vars

\* C24 happens: the first keymap event was decoded with the descriptor that
\* arrived first, and the descriptor of the second event waits for the rest
\* of its frame, which a later recv() completes
C24_Witness ==
    /\ result = Returned("recv", 1)
    /\ Len(queues[DefaultQueue]) = 1
    /\ FdArgs(queues[DefaultQueue]) = << 7 >>
    /\ incoming_fds = << 8 >>
    /\ read_partial_event # << >>
    /\ s2c # << >>

\* the descriptors of the frame that Request.invoke has marshalled and is
\* about to queue
CallFds == IF call = NoCall THEN {} ELSE { call.fl[i] : i \in 1 .. Len(call.fl) }

\* C25: the descriptors that marshalling has duplicated and that are still
\* open are exactly the ones of the frames waiting to be sent: a duplicate
\* is not closed while its frame is in the send queue and not left open once
\* its frame has left the queue.
C25_DupsClosedWhenSent ==
    descriptors.open = FdSet(send_queue) \cup CallFds

\* the turn of the loop of dispatch_pending leaves the proxies, the registry
\* and the allocator alone, calls no handler and ends no call
NothingDispatched ==
    /\ invoked' = invoked
    /\ proxies' = proxies
    /\ objects' = objects
    /\ oids' = oids
    /\ reusable_oids' = reusable_oids
    /\ call' = NoCall
    /\ result' = result

\* C28: when dispatch_pending takes an event entry off a queue, no handler
\* is called if the entry's proxy is destroyed or has no handler under the
\* event's name, and the event is dropped; otherwise the handler under the
\* event's name is called for that proxy and event, and no other.
C28_DestroyedDropsEvents ==
    [][(/\ DispatchPendingPop
        /\ queues[pop_queue(dpq)] # << >>
        /\ Head(queues[pop_queue(dpq)]).exc = "") =>
          LET e == Head(queues[pop_queue(dpq)])
              px == proxies[e.proxy]
          IN  /\ queues' = [queues EXCEPT ![pop_queue(dpq)] = Tail(@)]
              /\ px.destroyed => NothingDispatched
              /\ (~px.destroyed /\ px.dispatcher[e.event] = "") =>
                    NothingDispatched
              /\ (~px.destroyed /\ px.dispatcher[e.event] # "") =>
                    invoked' = invoked \cup {<<e.proxy, e.event>>}]_vars

\* C28 happens: the wl_seat proxy was destroyed by its destructor while it
\* had a handler for keymap; a keymap event was then received, decoded and
\* taken off the queue by dispatch_pending, and no handler was called
C28_Witness ==
    /\ proxies[Seat].destroyed
    /\ proxies[Seat].dispatcher["keymap"] # ""
    /\ emitted = 1
    /\ s2c = << >>
    /\ read_partial_event = << >>
    /\ incoming_fds = << >>
    /\ \A q \in QueueIds : queues[q] = << >>
    /\ invoked = {}
    /\ result.op = "dispatch_pending"

\* the call was dropped: no error, no frame, no id allocated, no proxy bound,
\* destroyed not set
Dropped ==
    /\ result' = Returned("invoke", NoProxy)
    /\ QueueRegistryAllocatorUnchanged
    /\ proxies' = proxies
    /\ descriptors' = descriptors

\* C29 (amended): a request whose since version exceeds the version of a
\* proxy whose oid is set is a no-op: it raises no error, enqueues no frame,
\* allocates no id, binds no new proxy and does not set destroyed, even when
\* the request is a destructor or has a new_id argument.
C29_VersionTooLowNoOp ==
    [][\A p \in 1 .. Len(proxies) :
         \A i \in 1 .. Len(Requests(proxies[p].interface)) :
           LET r == Requests(proxies[p].interface)[i]
           IN  (OwnerInvokes(p, r) /\ proxies[p].version < r.since
                  /\ ~Falsy(proxies[p].oid)) => Dropped]_vars

\* C29 as stated: a request whose since version exceeds the proxy's version is
\* a no-op that raises no error, whatever the state of the proxy
C29_AsStated ==
    [][\A p \in 1 .. Len(proxies) :
         \A i \in 1 .. Len(Requests(proxies[p].interface)) :
           LET r == Requests(proxies[p].interface)[i]
           IN  (OwnerInvokes(p, r) /\ proxies[p].version < r.since) =>
                  Dropped]_vars

\* C29 happens: the owner's last call, a request with since 2 on the wl_seat
\* proxy of version 1 whose oid is set, returned nothing; no frame was queued
\* since the connection was set up and the proxy is not destroyed
C29_Witness ==
    /\ result = Returned("invoke", NoProxy)
    /\ calls > 0
    /\ proxies[Seat].version = 1
    /\ proxies[Seat].oid = 3
    /\ ~proxies[Seat].destroyed
    /\ issued = 2
    /\ send_queue = << >>
    /\ Len(proxies) = 3

\* the request is called on a proxy that Request.invoke goes on to marshal
\* for, and its one argument is of type object
MarshalsObject(p, r, args) ==
    /\ ApiInvoke(p, r, args)
    /\ invoke_check(proxies[p], r) = "marshal"
    /\ Len(r.args) = 1
    /\ r.args[1].type = "object"

\* C30: None for an object argument that does not allow null makes the
\* request call raise NullArgumentException with no frame queued; None for
\* an object argument that allows null is encoded as id 0 and a proxy is
\* encoded as its oid, and in both of these cases the frame is queued.
C30_NullObjectArgument ==
    [][/\ \A p \in 1 .. Len(proxies) :
            \A i \in 1 .. Len(Requests(proxies[p].interface)) :
              \A args \in ArgChoices(Requests(proxies[p].interface)[i]) :
                LET r == Requests(proxies[p].interface)[i]
                IN  MarshalsObject(p, r, args) =>
                      IF args[1] = NoProxy /\ ~r.args[1].allow_null
                      THEN /\ result' = Raised("invoke", "NullArgumentException")
                           /\ call' = NoCall
                           /\ send_queue' = send_queue
                      ELSE IF args[1] = NoProxy
                      THEN GoesOnToQueue(p, r) /\ call'.al = << 0 >>
                      ELSE ~Falsy(proxies[args[1]].oid) =>
                             /\ GoesOnToQueue(p, r)
                             /\ call'.al = << proxies[args[1]].oid >>
       /\ (InvokeQueue /\ Len(call.request.args) = 1
             /\ call.request.args[1].type = "object") =>
             send_queue' =
               Append(send_queue,
                      [b |-> << proxies[call.proxy].oid,
                                12 * 65536 + call.request.opcode >> \o call.al,
                       fds |-> << >>, n |-> issued + 1])]_vars

\* C30 happens: the frame of set_region(None), which allows null, is in the
\* send queue with id 0 as its argument, and the owner's last call,
\* place_above(None), raised NullArgumentException
C30_Witness ==
    /\ result = Raised("invoke", "NullArgumentException")
    /\ send_queue # << >>
    /\ Last(send_queue).b = << 3, 12 * 65536 + 2, 0 >>

\* the size field of a frame's header: the upper half of its second word
SizeField(b) == b[7] + 256 * b[8]

\* C21: every frame _marshal_request hands to the send queue has a header
\* size field equal to the frame's byte length, header included, a multiple
\* of 4 and at least 8, whatever the kinds of the request's arguments (int,
\* uint, fixed, string of any length, object, new_id with or without an
\* interface, fd).
C21_SizeIsByteLength ==
    (codec.kind = "request" /\ codec.exc = "") =>
        /\ SizeField(codec.b) = Len(codec.b)
        /\ SizeField(codec.b) % 4 = 0
        /\ SizeField(codec.b) >= 8

\* C21 happens: the frame of set_title with a title of four bytes, twenty
\* bytes long, has been marshalled
C21_Witness ==
    /\ codec.kind = "request"
    /\ codec.req = "set_title"
    /\ codec.exc = ""
    /\ codec.args = << VStr(<< 8364, 97 >>) >>
    /\ Len(codec.b) = 20

\* C22: decoding the encoding of a fixed value that is a multiple of 1/256
\* in the signed 24.8 range gives the value back, to within 1/256, negative
\* values that are not integers included; so does decoding the encoding of
\* every int and every uint in its 32-bit range.
C22_ScalarRoundTrip ==
    /\ codec.kind = "fixed" =>
         /\ codec.exc = ""
         /\ codec.out[1].x - codec.args[1].x \in (0 - 1) .. 1
    /\ (codec.kind = "int" /\ InInt32(codec.args[1].n)) =>
         /\ codec.exc = ""
         /\ codec.out[1].n = codec.args[1].n
    /\ (codec.kind = "uint" /\ InUint32(codec.args[1].n)) =>
         /\ codec.exc = ""
         /\ codec.out[1].n = codec.args[1].n

\* the string has an encoding: no code point of it is a surrogate
Encodable(s) == \A k \in 1 .. Len(s) : ~IsSurrogate(s[k])

\* C23: a string whose encoding is n bytes long is marshalled as the uint32
\* n + 1, the n bytes and 4 - (n mod 4) zero bytes, for n = 0 and n a
\* multiple of 4 as for any n, and unmarshalling gives the string back and
\* leaves argdata at the first byte of the argument that follows.
C23_StringRoundTrip ==
    (codec.kind = "string" /\ Encodable(codec.args[1].s)) =>
        LET estr == encode_utf8(codec.args[1].s).b
            n == Len(estr)
        IN  /\ codec.exc = ""
            /\ codec.b = WordBytes(0, n + 1) \o estr \o Zeros(4 - (n % 4))
            /\ codec.out = << VStr(codec.args[1].s) >>
            /\ codec.rest = codec.args[2].s

\* C23 happens: a string of four bytes, one of its characters of three, has
\* been marshalled and unmarshalled with an argument after it
C23_Witness ==
    /\ codec.kind = "string"
    /\ codec.args = << VStr(<< 8364, 97 >>), VStr(<< 7, 0, 0, 0 >>) >>
    /\ codec.out = << VStr(<< 8364, 97 >>) >>
    /\ Len(codec.b) = 12
    /\ codec.rest = << 7, 0, 0, 0 >>

\* the owner's request call ends in NullArgumentException
FailsOnNull(p, r, args) ==
    /\ ApiInvoke(p, r, args)
    /\ result' = Raised("invoke", "NullArgumentException")

\* C35: a request call that raises NullArgumentException while marshalling
\* leaves the connection as it was: the id iterator, the reuse pile, the
\* registry, the open duplicated descriptors and the send queue are
\* unchanged, also when a new_id or fd argument comes before the argument
\* that fails.
C35_FailedMarshalLeavesConnection ==
    [][\A p \in 1 .. Len(proxies) :
         \A i \in 1 .. Len(Requests(proxies[p].interface)) :
           \A args \in ArgChoices(Requests(proxies[p].interface)[i]) :
             FailsOnNull(p, Requests(proxies[p].interface)[i], args) =>
               /\ oids' = oids
               /\ reusable_oids' = reusable_oids
               /\ objects' = objects
               /\ descriptors'.open = descriptors.open
               /\ send_queue' = send_queue]_vars

\* queue b is queue a with entries appended
Extends(b, a) == Len(a) <= Len(b) /\ SubSeq(b, 1, Len(a)) = a

\* C31: once set_queue(q) was called on a proxy, every event a later recv()
\* decodes for the proxy is appended to q and to no other queue: each entry
\* a recv() appends goes to the queue its proxy is set to; set_queue itself
\* moves no entry, so what was queued before stays where it was, in order.
C31_EventsLandInCurrentQueue ==
    [][/\ \A k \in 1 .. Len(s2c) :
            ApiRecv(k) =>
              \A q \in QueueIds :
                /\ Extends(queues'[q], queues[q])
                /\ \A j \in Len(queues[q]) + 1 .. Len(queues'[q]) :
                     proxies'[queues'[q][j].proxy].queue = q
       /\ \A p \in 1 .. Len(proxies) :
            \A q \in QueueIds :
              ApiSetQueue(p, q) =>
                /\ queues' = queues
                /\ proxies'[p].queue = q]_vars

\* C31 happens: the device was retargeted between two of its events; the
\* earlier one waits in the default queue, the later one in the other queue
C31_Witness ==
    \E p \in 1 .. Len(proxies) :
      /\ proxies[p].interface = "wl_data_device"
      /\ proxies[p].queue = 1
      /\ queues[DefaultQueue] # << >>
      /\ Head(queues[DefaultQueue]).proxy = p
      /\ queues[1] # << >>
      /\ Head(queues[1]).proxy = p

\* recvmsg returns k words that, with the partial event, are exactly the
\* frames delete_id(i) and delete_id(j), one after the other
TwoDeleteIdsArrive(k, i, j) ==
    /\ k <= Len(s2c)
    /\ ApiRecv(k)
    /\ Display \in DOMAIN proxies
    /\ Lookup(objects, 1) = Display
    /\ read_partial_event \o [n \in 1 .. k |-> s2c[n].w]
         = Frame(1, 1, << i >>) \o Frame(1, 1, << j >>)

\* the entry dispatch_pending takes from queue q in this step
DispatchedFrom(q) ==
    /\ queues[q] # << >>
    /\ queues' = [queues EXCEPT ![q] = Tail(@)]
    /\ invoked' \ invoked
         \subseteq { << Head(queues[q]).proxy, Head(queues[q]).event >> }

NewProxies == Len(proxies) + 1 .. Len(proxies')

\* C33: a proxy made for a new_id argument starts on the default queue,
\* whatever queue the proxy that made the request or got the event is on.
\* Made by a request, it has the argument's interface and the requesting
\* proxy's version, or the interface and version the caller passed when the
\* argument names no interface; made by an event, it has the argument's
\* interface and the version of the proxy the event is for.
C33_NewProxiesOnDefaultQueue ==
    [][/\ \A h \in NewProxies : proxies'[h].queue = DefaultQueue
       /\ \A p \in 1 .. Len(proxies) :
            \A i \in 1 .. Len(Requests(proxies[p].interface)) :
              \A args \in ArgChoices(Requests(proxies[p].interface)[i]) :
                LET r == Requests(proxies[p].interface)[i]
                IN  ApiInvoke(p, r, args) =>
                      \A h \in NewProxies :
                        \E n \in 1 .. Len(r.args) :
                          /\ r.args[n].type = "new_id"
                          /\ IF r.args[n].interface # ""
                             THEN /\ proxies'[h].interface = r.args[n].interface
                                  /\ proxies'[h].version = proxies[p].version
                             ELSE /\ proxies'[h].interface = args[n]
                                  /\ proxies'[h].version = args[n + 1]
       /\ \A k \in 1 .. Len(s2c) :
            ApiRecv(k) =>
              \A h \in NewProxies :
                \E q \in QueueIds :
                  \E j \in Len(queues[q]) + 1 .. Len(queues'[q]) :
                    /\ queues'[q][j].event = "data_offer"
                    /\ queues'[q][j].args = << h >>
                    /\ proxies'[h].interface = "wl_data_offer"
                    /\ proxies'[h].version = proxies[queues'[q][j].proxy].version]_vars

\* C33 happens: a wl_data_device of version 2 that the owner has put on the
\* other queue got a data_offer; the wl_data_offer made for it is on the
\* default queue and has version 2
C33_Witness ==
    /\ Len(proxies) = 4
    /\ proxies[3].interface = "wl_data_device"
    /\ proxies[3].queue = 1
    /\ proxies[3].version = 2
    /\ proxies[4].interface = "wl_data_offer"
    /\ proxies[4].queue = DefaultQueue
    /\ proxies[4].version = 2
    /\ queues[1] # << >>
    /\ Head(queues[1]).args = << 4 >>

\* C34: decoding an event binds ids of the server's range only: an id that
\* a recv() binds, or binds to another proxy than before, is not below the
\* ceiling of the client's range (0xff000000 in the source, OidCeiling here).
C34_EventsBindServerIds ==
    [][\A k \in 1 .. Len(s2c) :
         ApiRecv(k) =>
           \A id \in DOMAIN objects' :
             (id \notin DOMAIN objects \/ objects'[id] # objects[id]) =>
               id >= OidCeiling]_vars

\* C36: the loop of _decode ends for every byte sequence received, a header
\* whose size field is 0 included: no recv(), by the owner or inside
\* dispatch, runs for ever.
C36_DecodeTerminates == result.exc # "NonTermination"

\* C37: the reuse pile holds no id twice and no id that is bound in the
\* registry, so that no id handed out by the allocator is still bound.
C37_PileIdsUnbound ==
    /\ \A i, j \in 1 .. Len(reusable_oids) :
         reusable_oids[i] = reusable_oids[j] => i = j
    /\ \A i \in 1 .. Len(reusable_oids) : reusable_oids[i] \notin DOMAIN objects

\* C38: no handler is called for a proxy whose oid has been cleared by
\* delete_id, in whatever order the owner dispatches the queues.
C38_HandlersSeeLiveProxies ==
    [][\A p \in 1 .. Len(proxies) :
         \A ev \in EventNames(proxies[p].interface) :
           Dispatches(p, ev) => proxies[p].oid # None]_vars

\* C39: after a recv() the partial-event buffer holds what is left of the
\* bytes it was given (the buffer before it, then the bytes received) once
\* the frames it decoded, or failed to decode, are taken off the front, also
\* when a frame in the middle raised an error; so that no frame is decoded
\* again by a later recv().
C39_PartialIsUndecodedSuffix ==
    [][\A k \in 1 .. Len(s2c) :
         (ApiRecv(k) /\ recv(k).exc # "NonTermination") =>
           read_partial_event' = recv(k).data]_vars

\* the turn of the loop of dispatch_pending ends the call in an exception
\* that the entry it took, or the handler called for it, raised; IndexError
\* is what the pop itself raises on an empty default queue
RaisesOnEntry ==
    /\ DispatchPendingPop
    /\ dpq' = NoQueue
    /\ result'.kind = "raise"
    /\ result'.exc # "IndexError"

\* C40: when dispatch_pending() raises because of an entry (a display error,
\* an exception of its handler), exactly that entry, the head of its queue,
\* has left the queue and the entries behind it are still there in their
\* order, the other queues untouched, so that the next dispatch_pending()
\* goes on with the entry that followed.
C40_RaisingEntryRemoved ==
    [][RaisesOnEntry =>
         \E q \in QueueIds :
           /\ queues[q] # << >>
           /\ queues' = [queues EXCEPT ![q] = Tail(@)]]_vars

\* C40 happens: dispatch_pending() raised the display error of the entry at
\* the head of the default queue; the delete_id that followed it is now the
\* head
C40_Witness ==
    /\ result = [Raised("dispatch_pending", "DisplayError") EXCEPT
                   !.err = result.err]
    /\ dpq = NoQueue
    /\ Len(queues[DefaultQueue]) = 1
    /\ Head(queues[DefaultQueue]).event = "delete_id"

====
